---- MODULE Spec2Model ----
(***************************************************************************)
(* Model of llm-text-queue: the Redis connection manager, the response     *)
(* cache built on it, and the provider-fallback generation pipeline.       *)
(* Python str values are TLA+ strings; Optional[str] is <<>> (None) or     *)
(* <<s>>.                                                                  *)
(***************************************************************************)
EXTENDS Integers, Sequences, FiniteSets, TLC

VARIABLES
    is_connected_flag,   \* RedisManager._is_connected
    redis_client,        \* RedisManager._redis_client (NULL or a handle)
    queue,               \* RedisManager._queue
    connection_pool,     \* RedisManager._connection_pool
    backendUp,           \* environment: the Redis server answers
    store,               \* environment: Redis keyspace, key -> [data, ttl]
    hit_count,           \* CacheManager.hit_count
    miss_count,          \* CacheManager.miss_count
    getCalls,            \* number of completed CacheManager.get calls
    opCount,             \* number of completed cache operations and queue requests
    last,                \* the last completed operation, its inputs and result
    keyCalls,            \* the calls of _generate_cache_key made so far
    config,              \* config.py / module globals: PROVIDER, gemini_client, API key
    jobs,                \* environment: the jobs enqueued on the RQ queue 'default'
    pingPc,              \* a thread inside RedisManager.ping: "idle" or "call"
    conn,                \* api_queue.conn and api_queue.q, set together at import
    running              \* per thread, the call it is in the middle of and its locals

vars == <<is_connected_flag, redis_client, queue, connection_pool, backendUp,
          store, hit_count, miss_count, getCalls, opCount, last, keyCalls, config,
          jobs, pingPc, conn, running>>

redisVars == <<is_connected_flag, redis_client, queue, connection_pool>>
cacheVars == <<store, hit_count, miss_count, getCalls, opCount>>
keyVars == <<keyCalls, config>>
svcVars == <<jobs, pingPc, conn, running>>

----------------------------------------------------------------------------
(* Bounds *)

MaxKeyCalls == 2     \* calls of _generate_cache_key per run of SpecKey
MaxOps == 3          \* cache reads and writes (get, set, delete, clear_all) per run
LongLen == 241       \* length of the long provider name among the inputs
MaxRequests == 2     \* /generate requests per run of SpecDirect
MaxPromptLen == 5    \* length of the prompts given to sanitize_prompt in SpecSanitize
MaxThreads == 2      \* threads of the process that share the two managers

----------------------------------------------------------------------------
(* Threads *)

Threads == 1..MaxThreads

\* a thread that is in no call
IDLE == [op |-> "idle"]

----------------------------------------------------------------------------
(* Python values *)

NULL == "NULL"
None == <<>>
Some(s) == <<s>>

\* x or "" for an Optional[str]
OrEmpty(o) == IF o = None THEN "" ELSE o[1]

RECURSIVE Rep(_, _)
Rep(c, n) == IF n = 0 THEN "" ELSE c \o Rep(c, n - 1)

\* c * n for large n, by halving
RECURSIVE RepLong(_, _)
RepLong(c, n) == IF n = 0 THEN ""
                 ELSE IF n % 2 = 1 THEN c \o RepLong(c, n - 1)
                 ELSE RepLong(c \o c, n \div 2)

IsSpace(c) == c \in {" ", "\t", "\n", "\r", "\f"}

\* str.lstrip / str.rstrip / str.strip
RECURSIVE LStrip(_)
LStrip(s) == IF Len(s) = 0 THEN s
             ELSE IF IsSpace(SubSeq(s, 1, 1)) THEN LStrip(SubSeq(s, 2, Len(s)))
             ELSE s

RECURSIVE RStrip(_)
RStrip(s) == IF Len(s) = 0 THEN s
             ELSE IF IsSpace(SubSeq(s, Len(s), Len(s))) THEN RStrip(SubSeq(s, 1, Len(s) - 1))
             ELSE s

Strip(s) == RStrip(LStrip(s))

\* str.startswith
StartsWith(s, p) == Len(s) >= Len(p) /\ SubSeq(s, 1, Len(p)) = p

\* x in s
Contains(s, x) == \E i \in 1..(Len(s) - Len(x) + 1) : SubSeq(s, i, i + Len(x) - 1) = x

\* ":".join(parts)
RECURSIVE Join(_, _)
Join(sep, parts) == IF Len(parts) = 0 THEN ""
                    ELSE IF Len(parts) = 1 THEN parts[1]
                    ELSE parts[1] \o sep \o Join(sep, Tail(parts))

----------------------------------------------------------------------------
(* Inputs *)

LongProvider == Rep("x", LongLen)

\* the longest prompt the validators accept and the shortest they refuse
MaxPrompt == RepLong("x", 10000)
LongPrompt == RepLong("x", 10001)

CachePrompts == {"ping", "hello"}
CacheProviders == {"openrouter", LongProvider}
CacheModels == {"m1"}
Triples == CachePrompts \X CacheProviders \X CacheModels

----------------------------------------------------------------------------
(* CacheManager: key derivation *)

cache_prefix == "llm_cache:"
max_key_length == 250
default_ttl == 3600

\* hashlib.sha256(prompt.encode('utf-8')).hexdigest()[:16], tabulated for the
\* prompts of the input sets
prompt_hash(prompt) ==
    CASE prompt = "ping" -> "758d61f26a444483"
      [] prompt = "hello" -> "2cf24dba5fb0a30e"
      [] prompt = "test prompt: ping" -> "ddff2c4abef3e055"
      [] prompt = "hi" -> "8f434346648f6b96"
      [] prompt = MaxPrompt -> "e4ee97ec252749d2"

_generate_cache_key(prompt, provider, model) ==
    LET key == Join(":", <<cache_prefix, provider, model, prompt_hash(prompt)>>)
    IN  IF Len(key) > max_key_length THEN SubSeq(key, 1, max_key_length) ELSE key

----------------------------------------------------------------------------
(* RedisManager *)

CLIENT == "client"
QUEUE == "queue"
POOL == "pool"

\* a ping that answers from the handle alone
ping_trusts_client ==
    IF redis_client = NULL THEN [ret |-> FALSE, flag |-> is_connected_flag]
    ELSE [ret |-> TRUE, flag |-> is_connected_flag]

\* RedisManager.ping: [ret, flag] where flag is _is_connected afterwards
ping ==
    IF redis_client = NULL THEN [ret |-> FALSE, flag |-> is_connected_flag]
    ELSE IF backendUp THEN [ret |-> TRUE, flag |-> is_connected_flag]
    ELSE [ret |-> FALSE, flag |-> FALSE]

\* an is_connected that trusts the flag
is_connected_cached == [ret |-> is_connected_flag, flag |-> is_connected_flag]

\* an is_connected that pings a manager whose flag is false and sets the flag
\* again when the server answers
is_connected_recovering ==
    IF is_connected_flag THEN ping
    ELSE IF redis_client # NULL /\ backendUp THEN [ret |-> TRUE, flag |-> TRUE]
    ELSE [ret |-> FALSE, flag |-> is_connected_flag]

\* RedisManager.is_connected: self._is_connected and self.ping()
is_connected ==
    IF ~is_connected_flag THEN [ret |-> FALSE, flag |-> is_connected_flag]
    ELSE ping

\* RedisManager.connect; failAt is the statement of the try block that raises
ConnectStages == {"none", "pool", "client", "ping", "queue"}

connect(failAt) ==
    /\ failAt \in {"none", "queue"} => backendUp
    /\ connection_pool' = IF failAt = "pool" THEN connection_pool ELSE POOL
    /\ redis_client' = IF failAt \in {"pool", "client"} THEN redis_client ELSE CLIENT
    /\ queue' = IF failAt = "none" THEN QUEUE ELSE queue
    /\ is_connected_flag' = (failAt = "none")
    /\ last' = [op |-> "connect", failAt |-> failAt, ret |-> (failAt = "none")]
    /\ UNCHANGED <<backendUp, cacheVars, keyVars, svcVars>>

\* RedisManager.disconnect
disconnect ==
    /\ is_connected_flag' = FALSE
    /\ redis_client' = NULL
    /\ queue' = NULL
    /\ last' = [op |-> "disconnect"]
    /\ UNCHANGED <<connection_pool, backendUp, cacheVars, keyVars, svcVars>>

\* environment: the Redis server stops or resumes answering
BackendToggle ==
    /\ backendUp' = ~backendUp
    /\ UNCHANGED <<redisVars, cacheVars, last, keyVars, svcVars>>

\* a reconnect that skips the disconnect
reconnect_without_disconnect(failAt) ==
    /\ failAt \in {"none", "queue"} => backendUp
    /\ connection_pool' = IF failAt = "pool" THEN connection_pool ELSE POOL
    /\ redis_client' = IF failAt \in {"pool", "client"} THEN redis_client ELSE CLIENT
    /\ queue' = IF failAt = "none" THEN QUEUE ELSE queue
    /\ is_connected_flag' = (failAt = "none")
    /\ last' = [op |-> "reconnect", failAt |-> failAt, ret |-> (failAt = "none"),
                client_created |-> (failAt \notin {"pool", "client"}),
                queue_created |-> (failAt = "none")]
    /\ UNCHANGED <<backendUp, cacheVars, keyVars, svcVars>>

\* RedisManager.reconnect: self.disconnect(); return self.connect()
reconnect(failAt) ==
    /\ failAt \in {"none", "queue"} => backendUp
    /\ connection_pool' = IF failAt = "pool" THEN connection_pool ELSE POOL
    /\ redis_client' = IF failAt \in {"pool", "client"} THEN NULL ELSE CLIENT
    /\ queue' = IF failAt = "none" THEN QUEUE ELSE NULL
    /\ is_connected_flag' = (failAt = "none")
    /\ last' = [op |-> "reconnect", failAt |-> failAt, ret |-> (failAt = "none"),
                client_created |-> (failAt \notin {"pool", "client"}),
                queue_created |-> (failAt = "none")]
    /\ UNCHANGED <<backendUp, cacheVars, keyVars, svcVars>>

\* RedisManager.ping run by a thread of its own, lines 109-110: the test of
\* self._redis_client
ping_check ==
    /\ pingPc = "idle"
    /\ IF redis_client = NULL
       THEN /\ last' = [op |-> "ping", client |-> NULL, answered |-> FALSE,
                        raised |-> FALSE, ret |-> FALSE, flag |-> is_connected_flag]
            /\ pingPc' = "idle"
       ELSE /\ last' = last
            /\ pingPc' = "call"
    /\ UNCHANGED <<redisVars, backendUp, cacheVars, keyVars, jobs, conn, running>>

\* lines 112-118: self._redis_client.ping() on the attribute as it is now; a
\* None there raises AttributeError, which the except clause does not name
ping_call ==
    /\ pingPc = "call"
    /\ pingPc' = "idle"
    /\ is_connected_flag' = IF redis_client # NULL /\ ~backendUp THEN FALSE
                            ELSE is_connected_flag
    /\ last' = IF redis_client = NULL
               THEN [op |-> "ping", client |-> NULL, answered |-> FALSE, raised |-> TRUE,
                     flag |-> is_connected_flag]
               ELSE [op |-> "ping", client |-> redis_client, answered |-> backendUp,
                     raised |-> FALSE, ret |-> backendUp, flag |-> is_connected_flag']
    /\ UNCHANGED <<redis_client, queue, connection_pool, backendUp, cacheVars, keyVars, jobs, conn, running>>

\* a consumer reads is_connected and then client (worker.create_worker,
\* lines 34-40)
is_connected_access ==
    LET ic == is_connected
    IN  /\ is_connected_flag' = ic.flag
        /\ last' = [op |-> "is_connected", ret |-> ic.ret, client |-> redis_client]
        /\ UNCHANGED <<redis_client, queue, connection_pool, backendUp, cacheVars,
                       keyVars, svcVars>>

\* initialize_redis, line 213
max_retries == 3

\* the connect outcomes initialize_redis can meet, one per attempt
ConnectOutcomes == [1..max_retries -> ConnectStages]

\* initialize_redis that never stops early
initialize_attempts_all(outcomes) == max_retries

\* number of connect calls initialize_redis makes: it returns at the first
\* connect that succeeds
initialize_attempts(outcomes) ==
    IF \E i \in 1..max_retries : outcomes[i] = "none"
    THEN CHOOSE i \in 1..max_retries :
            outcomes[i] = "none" /\ \A j \in 1..(i - 1) : outcomes[j] # "none"
    ELSE max_retries

\* the manager after the connect calls initialize_redis made
initialize_redis_connects(outcomes) ==
    LET n == initialize_attempts(outcomes)
        made == SubSeq(outcomes, 1, n)
    IN  /\ \A i \in 1..max_retries : outcomes[i] \in {"none", "queue"} => backendUp
        /\ connection_pool' = IF \E i \in 1..n : made[i] # "pool" THEN POOL ELSE connection_pool
        /\ redis_client' = IF \E i \in 1..n : made[i] \notin {"pool", "client"}
                           THEN CLIENT ELSE redis_client
        /\ queue' = IF made[n] = "none" THEN QUEUE ELSE queue
        /\ is_connected_flag' = (made[n] = "none")

\* what initialize_redis returns: the last connect it made succeeded
initialize_redis_ret(outcomes) == outcomes[initialize_attempts(outcomes)] = "none"

\* initialize_redis
initialize_redis(outcomes) ==
    /\ initialize_redis_connects(outcomes)
    /\ last' = [op |-> "initialize_redis", outcomes |-> outcomes,
                attempts |-> initialize_attempts(outcomes),
                ret |-> initialize_redis_ret(outcomes)]
    /\ UNCHANGED <<backendUp, cacheVars, keyVars, svcVars>>

----------------------------------------------------------------------------
(* CacheManager: payloads *)

EmptyMd == [k \in {} |-> NULL]
NoData == [kind |-> "absent"]

\* CacheManager._serialize_response: the JSON document written to Redis
_serialize_response(response, metadata, now) ==
    [kind |-> "object", response |-> response, metadata |-> metadata,
     cached_at |-> now, version |-> "1.0"]

\* _deserialize_response normalising the text it returns
_deserialize_response_strips(cached_data) ==
    CASE cached_data.kind = "object" ->
            [raised |-> FALSE, response |-> Strip(cached_data.response),
             metadata |-> ("cached_at" :> cached_data.cached_at) @@ cached_data.metadata]
      [] cached_data.kind = "invalid" ->
            [raised |-> FALSE, response |-> "", metadata |-> [k \in {} |-> "NULL"]]
      [] cached_data.kind = "nonobject" ->
            [raised |-> TRUE, response |-> "", metadata |-> [k \in {} |-> "NULL"]]

\* CacheManager._deserialize_response on a stored value: a JSON object, a
\* string that is not JSON ("invalid", JSONDecodeError is caught), or JSON
\* that is not an object ("nonobject", data.get raises AttributeError, which
\* is not caught here)
_deserialize_response(cached_data) ==
    CASE cached_data.kind = "object" ->
            [raised |-> FALSE, response |-> cached_data.response,
             metadata |-> ("cached_at" :> cached_data.cached_at) @@ cached_data.metadata]
      [] cached_data.kind = "invalid" ->
            [raised |-> FALSE, response |-> "", metadata |-> EmptyMd]
      [] cached_data.kind = "nonobject" ->
            [raised |-> TRUE, response |-> "", metadata |-> EmptyMd]

\* redis GET on the keyspace
redis_get(key) == IF key \in DOMAIN store THEN store[key].data ELSE NoData

\* redis SETEX / DEL on the keyspace
redis_setex(key, ttl, data) ==
    [k \in DOMAIN store \cup {key} |->
        IF k = key THEN [data |-> data, ttl |-> ttl] ELSE store[k]]

\* a DEL that empties the database
redis_delete_everything(keys) == [k \in {} |-> NULL]

redis_delete(keys) == [k \in DOMAIN store \ keys |-> store[k]]

----------------------------------------------------------------------------
(* CacheManager: operations.  raises: the Redis call of the operation raises *)

Responses == {"", " ", " p "}
Metadatas == {[method |-> "direct_generation"]}
TtlArgs == {None}
Times == {1}

\* the emptiness test of set without the strip
is_empty_response_nostrip(response) == response = ""

\* set, line 160: not response or not response.strip()
is_empty_response(response) == response = "" \/ Strip(response) = ""

miss_result == [response |-> None, metadata |-> EmptyMd]

\* CacheManager.get
get(prompt, provider, model, raises) ==
    LET ic == is_connected
        cache_key == _generate_cache_key(prompt, provider, model)
        cached_data == redis_get(cache_key)
        des == _deserialize_response(cached_data)
        fails == ic.ret /\ (raises \/ (cached_data.kind # "absent" /\ des.raised))
        hit == ic.ret /\ ~fails /\ cached_data.kind # "absent" /\ des.response # ""
        miss == ic.ret /\ ~fails /\ ~hit
    IN  /\ opCount < MaxOps
        /\ is_connected_flag' = ic.flag
        /\ hit_count' = IF hit THEN hit_count + 1 ELSE hit_count
        /\ miss_count' = IF miss THEN miss_count + 1 ELSE miss_count
        /\ getCalls' = getCalls + 1
        /\ opCount' = opCount + 1
        /\ last' = [op |-> "get", prompt |-> prompt, provider |-> provider, model |-> model,
                    cache_key |-> cache_key, connected |-> ic.ret, raised |-> fails,
                    stored |-> cached_data.kind,
                    ret |-> IF hit THEN [response |-> Some(des.response), metadata |-> des.metadata]
                            ELSE miss_result]
        /\ UNCHANGED <<redis_client, queue, connection_pool, backendUp, store, keyVars, svcVars>>

\* CacheManager.get in thread t, lines 116-126 or 130: everything up to and
\* with the read of the counter in self.hit_count += 1 or self.miss_count += 1.
\* The statement reads the attribute, adds and writes it back in separate
\* bytecodes and the class holds no lock, so other threads run in between.
\* A get that finds the manager disconnected, or whose data does not
\* deserialize, returns here.
get_load(t, prompt, provider, model) ==
    LET ic == is_connected
        cache_key == _generate_cache_key(prompt, provider, model)
        cached_data == redis_get(cache_key)
        des == _deserialize_response(cached_data)
        fails == ic.ret /\ cached_data.kind # "absent" /\ des.raised
        hit == ic.ret /\ ~fails /\ cached_data.kind # "absent" /\ des.response # ""
        counts == ic.ret /\ ~fails
        result == [op |-> "get", prompt |-> prompt, provider |-> provider, model |-> model,
                   cache_key |-> cache_key, connected |-> ic.ret, raised |-> fails,
                   stored |-> cached_data.kind,
                   ret |-> IF hit THEN [response |-> Some(des.response), metadata |-> des.metadata]
                           ELSE miss_result]
    IN  /\ running[t] = IDLE
        /\ opCount + Cardinality({u \in Threads : running[u] # IDLE}) < MaxOps
        /\ is_connected_flag' = ic.flag
        /\ IF counts
           THEN /\ running' = [running EXCEPT ![t] =
                                  [op |-> "get",
                                   counter |-> IF hit THEN "hit_count" ELSE "miss_count",
                                   loaded |-> IF hit THEN hit_count ELSE miss_count,
                                   result |-> result]]
                /\ UNCHANGED <<getCalls, opCount, last>>
           ELSE /\ getCalls' = getCalls + 1
                /\ opCount' = opCount + 1
                /\ last' = result
                /\ running' = running
        /\ UNCHANGED <<redis_client, queue, connection_pool, backendUp, store, hit_count,
                       miss_count, keyVars, jobs, pingPc, conn>>

\* the write of self.hit_count += 1 or self.miss_count += 1 and the return
get_store(t) ==
    /\ running[t].op = "get"
    /\ hit_count' = IF running[t].counter = "hit_count" THEN running[t].loaded + 1
                    ELSE hit_count
    /\ miss_count' = IF running[t].counter = "miss_count" THEN running[t].loaded + 1
                     ELSE miss_count
    /\ getCalls' = getCalls + 1
    /\ opCount' = opCount + 1
    /\ last' = running[t].result
    /\ running' = [running EXCEPT ![t] = IDLE]
    /\ UNCHANGED <<redisVars, backendUp, store, keyVars, jobs, pingPc, conn>>

\* CacheManager.set
set(prompt, provider, model, response, metadata, ttl, now, raises) ==
    LET ic == is_connected
        cache_key == _generate_cache_key(prompt, provider, model)
        cache_ttl == IF ttl # None THEN ttl[1] ELSE default_ttl
        cache_data == _serialize_response(response, metadata, now)
        writes == ic.ret /\ ~is_empty_response(response) /\ ~raises
    IN  /\ opCount < MaxOps
        /\ is_connected_flag' = ic.flag
        /\ store' = IF writes THEN redis_setex(cache_key, cache_ttl, cache_data) ELSE store
        /\ opCount' = opCount + 1
        /\ last' = [op |-> "set", prompt |-> prompt, provider |-> provider, model |-> model,
                    response |-> response, cache_key |-> cache_key, connected |-> ic.ret,
                    raised |-> (ic.ret /\ ~is_empty_response(response) /\ raises),
                    ret |-> writes]
        /\ UNCHANGED <<redis_client, queue, connection_pool, backendUp,
                       hit_count, miss_count, getCalls, keyVars, svcVars>>

\* CacheManager.delete
delete(prompt, provider, model, raises) ==
    LET ic == is_connected
        cache_key == _generate_cache_key(prompt, provider, model)
        removes == ic.ret /\ ~raises /\ cache_key \in DOMAIN store
    IN  /\ opCount < MaxOps
        /\ is_connected_flag' = ic.flag
        /\ store' = IF removes THEN redis_delete({cache_key}) ELSE store
        /\ opCount' = opCount + 1
        /\ last' = [op |-> "delete", prompt |-> prompt, provider |-> provider, model |-> model,
                    cache_key |-> cache_key, connected |-> ic.ret, raised |-> (ic.ret /\ raises),
                    ret |-> removes]
        /\ UNCHANGED <<redis_client, queue, connection_pool, backendUp,
                       hit_count, miss_count, getCalls, keyVars, svcVars>>

\* a SCAN that ignores its match pattern
redis_scan_unmatched(prefix) == DOMAIN store

\* redis SCAN with match=prefix*, run to the end of the cursor
redis_scan(prefix) == {k \in DOMAIN store : StartsWith(k, prefix)}

\* clear_all, lines 234-240: bool(result) of the DEL when the scan found
\* keys, True when it found none
clear_all_result(cache_keys, result) == IF cache_keys # {} THEN result > 0 ELSE TRUE

\* CacheManager.clear_all: SCAN for cache_prefix*, then one DEL of the keys
\* found.  vanished: the scanned keys that expire or are deleted by another
\* worker between the SCAN and the DEL
clear_all_with(raises, vanished) ==
    LET ic == is_connected
        cache_keys == redis_scan(cache_prefix)
        runs == ic.ret /\ ~raises
        result == Cardinality(cache_keys \ vanished)
    IN  /\ opCount < MaxOps
        /\ vanished \subseteq cache_keys
        /\ ic.ret \/ vanished = {}
        /\ is_connected_flag' = ic.flag
        /\ store' = IF runs THEN redis_delete(cache_keys) ELSE redis_delete(vanished)
        /\ opCount' = opCount + 1
        /\ last' = [op |-> "clear_all", connected |-> ic.ret, raised |-> (ic.ret /\ raises),
                    vanished |-> vanished,
                    cleared |-> IF runs THEN result ELSE 0,
                    ret |-> runs /\ clear_all_result(cache_keys, result)]
        /\ UNCHANGED <<redis_client, queue, connection_pool, backendUp,
                       hit_count, miss_count, getCalls, keyVars, svcVars>>

\* clear_all with no other worker and no expiry during the call
clear_all(raises) == clear_all_with(raises, {})

\* hit_rate dividing by the misses
hit_rate_by_misses(hits, total_requests) ==
    IF total_requests > 0 THEN <<hits, total_requests - hits>> ELSE <<0, 1>>

\* get_stats, lines 256-262: hits / total as the fraction <<numerator, denominator>>
hit_rate(hits, total_requests) ==
    IF total_requests > 0 THEN <<hits, total_requests>> ELSE <<0, 1>>

redis_info == [used_memory_human |-> "1M", connected_clients |-> 1, uptime_in_days |-> 0]

\* CacheManager.get_stats; raises: RedisManager.get_info finds no info
get_stats(raises) ==
    LET ic == is_connected
        total_requests == hit_count + miss_count
        stats == [hits |-> hit_count, misses |-> miss_count,
                  hit_rate |-> hit_rate(hit_count, total_requests),
                  total_requests |-> total_requests,
                  redis_connected |-> ic.ret]
    IN  /\ is_connected_flag' = ic.flag
        /\ last' = [op |-> "get_stats",
                    ret |-> IF ic.ret /\ ~raises
                            THEN stats @@ [redis_used_memory |-> redis_info.used_memory_human,
                                           redis_connected_clients |-> redis_info.connected_clients,
                                           redis_uptime_days |-> redis_info.uptime_in_days]
                            ELSE stats]
        /\ UNCHANGED <<redis_client, queue, connection_pool, backendUp, store,
                       hit_count, miss_count, getCalls, opCount, keyVars, svcVars>>

\* length of json.dumps of a metadata dict of strings
RECURSIVE metadata_length(_, _)
metadata_length(md, keys) ==
    IF keys = {} THEN Len("{}")
    ELSE LET k == CHOOSE x \in keys : TRUE
         IN  Len("\"\": \"\"") + Len(k) + Len(md[k])
                + (IF keys = {k} THEN 0 ELSE Len(", "))
                + metadata_length(md, keys \ {k})

\* len() of a stored value: the JSON document of _serialize_response, or a
\* foreign value
value_length(data) ==
    CASE data.kind = "object" ->
            Len("{\"response\": \"\", \"metadata\": , \"cached_at\": 1.0, \"version\": \"1.0\"}")
                + Len(data.response) + metadata_length(data.metadata, DOMAIN data.metadata)
      [] data.kind = "invalid" -> Len("not json")
      [] data.kind = "nonobject" -> Len("[]")
      [] data.kind = "absent" -> 0

\* redis TTL of a key that does not exist
TTL_NO_KEY == 0 - 2

InfoFailures == {"none", "exists", "ttl", "get"}
InfoRaces == {"never", "ttl", "get"}

\* CacheManager.get_cache_info: EXISTS, TTL, GET one after the other.
\* failAt: the Redis call that raises; goneAt: the call before which the
\* entry expires or is deleted by another worker
get_cache_info_with(prompt, provider, model, failAt, goneAt) ==
    LET ic == is_connected
        cache_key == _generate_cache_key(prompt, provider, model)
        present == cache_key \in DOMAIN store
        exists == ic.ret /\ failAt # "exists" /\ present
        ttl == IF ~exists \/ failAt = "ttl" THEN None
               ELSE IF goneAt = "ttl" THEN Some(TTL_NO_KEY)
               ELSE Some(store[cache_key].ttl)
        size == IF ~exists \/ failAt \in {"ttl", "get"} \/ goneAt # "never" THEN 0
                ELSE value_length(store[cache_key].data)
    IN  /\ goneAt # "never" => exists /\ failAt # "ttl" /\ (failAt = "get" => goneAt = "ttl")
        /\ failAt # "none" => ic.ret
        /\ failAt \in {"ttl", "get"} => present
        /\ is_connected_flag' = ic.flag
        /\ store' = IF goneAt # "never" THEN redis_delete({cache_key}) ELSE store
        /\ last' = [op |-> "get_cache_info", prompt |-> prompt, provider |-> provider,
                    model |-> model, connected |-> ic.ret, raised |-> (failAt # "none"),
                    gone |-> (goneAt # "never"),
                    ret |-> [cache_key |-> cache_key, exists |-> exists, ttl |-> ttl,
                             size |-> size]]
        /\ UNCHANGED <<redis_client, queue, connection_pool, backendUp,
                       hit_count, miss_count, getCalls, opCount, keyVars, svcVars>>

\* get_cache_info with no other worker and no expiry during the call
get_cache_info(prompt, provider, model, raises) ==
    get_cache_info_with(prompt, provider, model, IF raises THEN "exists" ELSE "none", "never")

\* environment: Redis drops an entry whose TTL has run out
Expire(key) ==
    /\ key \in DOMAIN store
    /\ store' = redis_delete({key})
    /\ last' = [op |-> "expire", cache_key |-> key]
    /\ UNCHANGED <<redisVars, backendUp, hit_count, miss_count, getCalls, opCount, keyVars, svcVars>>

\* environment: RQ keeps its own keys in the same Redis database
FOREIGN_KEY == "rq:queue:default"

ForeignWrite ==
    /\ FOREIGN_KEY \notin DOMAIN store
    /\ store' = redis_setex(FOREIGN_KEY, 0 - 1, [kind |-> "nonobject"])
    /\ last' = [op |-> "foreign_write", cache_key |-> FOREIGN_KEY]
    /\ UNCHANGED <<redisVars, backendUp, hit_count, miss_count, getCalls, opCount, keyVars, svcVars>>

\* environment: a stored value is damaged or replaced by something that is
\* not a cache document
CorruptKinds == {"invalid", "nonobject"}

Corrupt(key, kind) ==
    /\ key \in DOMAIN store
    /\ store[key].data.kind = "object"
    /\ store' = [store EXCEPT ![key].data = [kind |-> kind]]
    /\ last' = [op |-> "corrupt", cache_key |-> key]
    /\ UNCHANGED <<redisVars, backendUp, hit_count, miss_count, getCalls, opCount, keyVars, svcVars>>

----------------------------------------------------------------------------
(* Configuration: config.PROVIDER, respond.gemini_client, and whether         *)
(* _resolve_openrouter_api_key finds a key                                    *)

Configs == [PROVIDER : {"openrouter", "gemini"},
            gemini_client : {NULL, CLIENT},
            openrouter_key : BOOLEAN]

DefaultConfig == [PROVIDER |-> "openrouter", gemini_client |-> NULL, openrouter_key |-> TRUE]

----------------------------------------------------------------------------
(* Startup: config.validate_configuration and main.initialize_service *)

\* what the process finds when it starts: the selected provider, which of
\* the credential variables and files hold a key, and the ports;
\* openrouter_env: OPENROUTER_API_KEY, openrouter_file: ~/.api-openrouter,
\* gemini_env: GEMINI_API_KEY or GOOGLE_API_KEY, gemini_file: ~/.api-gemini
Environments == [PROVIDER : {"openrouter", "gemini"},
                 openrouter_env : BOOLEAN,
                 openrouter_file : BOOLEAN,
                 gemini_env : BOOLEAN,
                 gemini_file : BOOLEAN,
                 QUEUE_PORT : {5000},
                 RESPOND_PORT : {5000, 5001},
                 MAIN_PORT : {8000},
                 REDIS_URL : {"redis://localhost:6379"},
                 MAX_NEW_TOKENS : {150}]

\* config.GEMINI_API_KEY, lines 41-45: whether a key was found
GEMINI_API_KEY(env) == env.gemini_env \/ env.gemini_file

\* config._read_text_file on the two credential files: whether it returns
\* a non-empty text
_read_text_file(env, path) ==
    CASE path = "~/.api-openrouter" -> env.openrouter_file
      [] path = "~/.api-gemini" -> env.gemini_file

\* provider_openrouter._resolve_openrouter_api_key: whether it returns a key
_resolve_openrouter_api_key(env) == env.openrouter_env \/ env.openrouter_file

\* the configuration the modules derive from the environment
StartupConfig(env) ==
    [PROVIDER |-> env.PROVIDER,
     gemini_client |-> IF GEMINI_API_KEY(env) THEN CLIENT ELSE NULL,
     openrouter_key |-> _resolve_openrouter_api_key(env),
     env |-> env]

NO_API_KEYS == "No API keys found. Set OPENROUTER_API_KEY or create ~/.api-openrouter file"
NO_GEMINI_KEY == "Gemini provider selected but no Gemini API key found"
NO_FALLBACK_KEY == "No Gemini API key found for fallback"

\* the issue of one port, lines 96-104
port_issue(port_name, port_value) ==
    IF 1024 <= port_value /\ port_value <= 65535 THEN <<>>
    ELSE <<port_name \o " (" \o ToString(port_value) \o ") is not in valid range (1024-65535)">>

\* the first credential check, lines 125-129
openrouter_key_issue(env) ==
    IF env.PROVIDER = "openrouter" /\ ~GEMINI_API_KEY(env)
          /\ ~_read_text_file(env, "~/.api-openrouter")
    THEN <<NO_API_KEYS>> ELSE <<>>

\* config.validate_configuration: (is_valid, issues)
validate_configuration(env) ==
    LET ports == <<env.QUEUE_PORT, env.RESPOND_PORT, env.MAIN_PORT>>
        issues ==
            port_issue("QUEUE_PORT", env.QUEUE_PORT)
            \o port_issue("RESPOND_PORT", env.RESPOND_PORT)
            \o port_issue("MAIN_PORT", env.MAIN_PORT)
            \o (IF Len(ports) # Cardinality({ports[i] : i \in 1..Len(ports)})
                THEN <<"Port conflicts detected: multiple services configured to use the same port">>
                ELSE <<>>)
            \o (IF env.REDIS_URL = "" \/ ~StartsWith(env.REDIS_URL, "redis://")
                THEN <<"REDIS_URL must be a valid Redis URL starting with 'redis://'">>
                ELSE <<>>)
            \o (IF env.MAX_NEW_TOKENS <= 0
                THEN <<"MAX_NEW_TOKENS must be a positive integer">>
                ELSE IF env.MAX_NEW_TOKENS > 4000
                THEN <<"MAX_NEW_TOKENS is very high (>4000), this may cause issues">>
                ELSE <<>>)
            \o (IF env.PROVIDER \notin {"openrouter", "gemini"}
                THEN <<"PROVIDER must be either 'openrouter' or 'gemini', got: " \o env.PROVIDER>>
                ELSE <<>>)
            \o openrouter_key_issue(env)
            \o (IF ~GEMINI_API_KEY(env) /\ ~_read_text_file(env, "~/.api-gemini")
                THEN (IF env.PROVIDER = "gemini" THEN <<NO_GEMINI_KEY>> ELSE <<NO_FALLBACK_KEY>>)
                ELSE <<>>)
    IN  [is_valid |-> Len(issues) = 0, issues |-> issues]

\* a call of validate_configuration (config.log_configuration, the tests)
validate_configuration_call ==
    /\ last' = [op |-> "validate_configuration", ret |-> validate_configuration(config.env)]
    /\ UNCHANGED <<redisVars, backendUp, cacheVars, keyVars, svcVars>>

\* main.initialize_service: sys.exit(1) on an invalid configuration, else
\* initialize_redis; the health_check after it is only logged.  The process
\* runs it once, before it serves.
initialize_service_with(v, outcomes) ==
    /\ last.op \in {"init", "validate_configuration"}
    /\ IF v.is_valid
       THEN initialize_redis_connects(outcomes)
       ELSE /\ outcomes = [i \in 1..max_retries |-> "pool"]
            /\ UNCHANGED redisVars
    /\ last' = [op |-> "initialize_service", exited |-> ~v.is_valid, issues |-> v.issues,
                redis |-> v.is_valid /\ initialize_redis_ret(outcomes)]
    /\ UNCHANGED <<backendUp, cacheVars, keyVars, svcVars>>

initialize_service(outcomes) ==
    initialize_service_with(validate_configuration(config.env), outcomes)

----------------------------------------------------------------------------
(* Providers.  out is what the remote API does with the request. *)

ProviderTexts == {"", " ", "pong", " X "}

OpenRouterOutcomes ==
    {[kind |-> k, text |-> ""] : k \in {"network_error", "non200", "malformed", "no_choices"}}
        \cup {[kind |-> "ok", text |-> t] : t \in ProviderTexts}

GeminiOutcomes ==
    {[kind |-> k, text |-> ""] : k \in {"exception", "no_candidates"}}
        \cup {[kind |-> "ok", text |-> t] : t \in ProviderTexts}

\* provider_openrouter.generate_with_openrouter: Optional[str]
generate_with_openrouter(prompt, api_key, out) ==
    IF ~api_key THEN None
    ELSE CASE out.kind \in {"network_error", "malformed"} -> None
           [] out.kind = "non200" -> None
           [] out.kind = "no_choices" -> None
           [] out.kind = "ok" -> IF Strip(out.text) = "" THEN None ELSE Some(Strip(out.text))

\* respond._generate_with_gemini: str
_generate_with_gemini(prompt, gemini_client, out) ==
    IF gemini_client = NULL THEN "Error: AI model not configured."
    ELSE CASE out.kind = "exception" -> "Error generating AI response."
           [] out.kind = "no_candidates" -> "AI response generation failed or was blocked."
           [] out.kind = "ok" ->
                IF out.text = "" THEN "AI response generation failed or was blocked."
                ELSE Strip(out.text)

----------------------------------------------------------------------------
(* respond.predict_response *)

PipelinePrompts == {"hello", "ping", "test prompt: ping"}

TEST_PREFIX == "test prompt:"
\* a pipeline that returns nothing when every provider failed
ALL_FAILED_empty == ""

\* line 138
ALL_FAILED == "Error: Unable to generate response from any provider."

\* api_prompt that sends the prompt as it came
api_prompt_keeps_prefix(prompt) == prompt

\* lines 105-106
api_prompt(prompt) ==
    IF StartsWith(prompt, TEST_PREFIX)
    THEN SubSeq(prompt, Len(TEST_PREFIX) + 1, Len(prompt))
    ELSE prompt

\* one provider call: who was called, with what, and what it returned
Call(provider, prompt, result) == [provider |-> provider, prompt |-> prompt, result |-> result]

\* a pipeline that asks the alternate provider whatever the primary returned
tries_fallback_always(result_text) == TRUE

\* if not result_text, lines 119 and 128
tries_fallback(result_text) == result_text = ""

\* predict_response: [ret, calls]
predict_response(prompt, cfg, orOut, gemOut) ==
    LET is_test_prompt == StartsWith(prompt, TEST_PREFIX)
        sent == api_prompt(prompt)
        orRes == generate_with_openrouter(sent, cfg.openrouter_key, orOut)
        gemRes == _generate_with_gemini(sent, cfg.gemini_client, gemOut)
        orCall == Call("openrouter", sent, orRes)
        gemCall == Call("gemini", sent, Some(gemRes))
        first == IF cfg.PROVIDER = "openrouter" THEN OrEmpty(orRes) ELSE gemRes
        calls == IF cfg.PROVIDER = "openrouter"
                 THEN IF tries_fallback(first) THEN <<orCall, gemCall>> ELSE <<orCall>>
                 ELSE IF tries_fallback(first) THEN <<gemCall, orCall>> ELSE <<gemCall>>
        result_text == IF ~tries_fallback(first) THEN first
                       ELSE IF cfg.PROVIDER = "openrouter" THEN gemRes ELSE OrEmpty(orRes)
    IN  [calls |-> calls,
         ret |-> IF result_text = "" THEN ALL_FAILED
                 ELSE IF is_test_prompt THEN result_text
                 ELSE "Okay. I received \"" \o prompt \o "\".\n\n" \o result_text]

\* one invocation of predict_response
PredictResponse(prompt, orOut, gemOut) ==
    LET r == predict_response(prompt, config, orOut, gemOut)
    IN  /\ last' = [op |-> "predict_response", prompt |-> prompt,
                    openrouter |-> orOut, gemini |-> gemOut,
                    calls |-> r.calls, ret |-> r.ret]
        /\ UNCHANGED <<redisVars, backendUp, cacheVars, keyVars, svcVars>>

----------------------------------------------------------------------------
(* Key derivation on its own *)

KeyPrompts == {"ping", "hello"}
KeyProviders == {"openrouter", "gemini", LongProvider}
KeyModels == {"m1", "m2"}

GenerateCacheKey(prompt, provider, model) ==
    /\ Len(keyCalls) < MaxKeyCalls
    /\ keyCalls' = Append(keyCalls, [prompt |-> prompt, provider |-> provider, model |-> model,
                                     key |-> _generate_cache_key(prompt, provider, model)])
    /\ UNCHANGED <<redisVars, backendUp, cacheVars, last, config, svcVars>>

----------------------------------------------------------------------------
----------------------------------------------------------------------------
(* Queued generation: /queue/generate of main.py and /generate of            *)
(* api_queue.py.  main.py places the except block of queue_generate_text     *)
(* after cache_info (lines 295-297); it is modelled as that handler's.       *)

QueuePrompts == {"", " ", "hello"}
QueueResult == "pong"

\* what happens to the job after the request checked availability
JobOutcomes == {"enqueue_error", "finished", "timeout", "failed"}

\* two strings whose runs of blanks are already single spaces, joined so that
\* a run across the seam stays a single space
MergeBlanks(l, r) ==
    IF Len(l) > 0 /\ Len(r) > 0 /\ SubSeq(l, Len(l), Len(l)) = " " /\ SubSeq(r, 1, 1) = " "
    THEN l \o SubSeq(r, 2, Len(r))
    ELSE l \o r

\* re.sub(r'[ \t]+', ' ', prompt), computed by halves
RECURSIVE CollapseBlanks(_)
CollapseBlanks(s) ==
    IF Len(s) = 0 THEN s
    ELSE IF Len(s) = 1 THEN (IF s \in {" ", "\t"} THEN " " ELSE s)
    ELSE MergeBlanks(CollapseBlanks(SubSeq(s, 1, Len(s) \div 2)),
                     CollapseBlanks(SubSeq(s, Len(s) \div 2 + 1, Len(s))))

\* where to halve s so that no "\r\n" is cut in two
LineSplit(s) ==
    LET h == Len(s) \div 2
    IN  IF SubSeq(s, h, h) = "\r" /\ SubSeq(s, h + 1, h + 1) = "\n" THEN h + 1 ELSE h

\* re.sub(r'\r\n', '\n', prompt), computed by halves
RECURSIVE NormalizeLineEndings(_)
NormalizeLineEndings(s) ==
    IF Len(s) < 2 THEN s
    ELSE IF Len(s) = 2 THEN (IF s = "\r\n" THEN "\n" ELSE s)
    ELSE NormalizeLineEndings(SubSeq(s, 1, LineSplit(s)))
            \o NormalizeLineEndings(SubSeq(s, LineSplit(s) + 1, Len(s)))

\* number of newlines, up to two, that end l and that start r
TrailingNewlines(l) ==
    IF Len(l) = 0 \/ SubSeq(l, Len(l), Len(l)) # "\n" THEN 0
    ELSE IF Len(l) = 1 \/ SubSeq(l, Len(l) - 1, Len(l) - 1) # "\n" THEN 1
    ELSE 2
LeadingNewlines(r) ==
    IF Len(r) = 0 \/ SubSeq(r, 1, 1) # "\n" THEN 0
    ELSE IF Len(r) = 1 \/ SubSeq(r, 2, 2) # "\n" THEN 1
    ELSE 2

\* two strings whose runs of newlines are already at most two long, joined
\* so that a run across the seam is at most two long
MergeNewlines(l, r) ==
    IF TrailingNewlines(l) + LeadingNewlines(r) >= 3
    THEN l \o SubSeq(r, TrailingNewlines(l) + LeadingNewlines(r) - 1, Len(r))
    ELSE l \o r

\* re.sub(r'\n{3,}', '\n\n', prompt), computed by halves
RECURSIVE CollapseNewlines(_)
CollapseNewlines(s) ==
    IF Len(s) < 2 THEN s
    ELSE MergeNewlines(CollapseNewlines(SubSeq(s, 1, Len(s) \div 2)),
                       CollapseNewlines(SubSeq(s, Len(s) \div 2 + 1, Len(s))))

\* the characters of [\x00-\x08\x0b\x0c\x0e-\x1f\x7f-\x9f] that a string
\* constant can hold: the form feed \x0c
ControlChars == {"\f"}

\* re.sub(r'[\x00-\x08\x0b\x0c\x0e-\x1f\x7f-\x9f]', '', prompt), computed
\* by halves
RECURSIVE RemoveControlChars(_)
RemoveControlChars(s) ==
    IF Len(s) = 0 THEN s
    ELSE IF Len(s) = 1 THEN (IF s \in ControlChars THEN "" ELSE s)
    ELSE RemoveControlChars(SubSeq(s, 1, Len(s) \div 2))
            \o RemoveControlChars(SubSeq(s, Len(s) \div 2 + 1, Len(s)))

\* api_queue.sanitize_prompt and respond.sanitize_prompt (the same text)
sanitize_prompt(prompt) ==
    IF prompt = "" THEN ""
    ELSE Strip(RemoveControlChars(CollapseBlanks(CollapseNewlines(
                  NormalizeLineEndings(prompt)))))

\* api_queue.validate_prompt: (is_valid, error_msg)
validate_prompt(prompt) ==
    IF prompt = "" THEN [is_valid |-> FALSE, error_msg |-> "Prompt cannot be empty"]
    ELSE IF Len(Strip(prompt)) = 0
    THEN [is_valid |-> FALSE, error_msg |-> "Prompt cannot be only whitespace"]
    ELSE IF Len(Strip(prompt)) > 10000
    THEN [is_valid |-> FALSE, error_msg |-> "Prompt too long (max 10000 characters)"]
    ELSE [is_valid |-> TRUE, error_msg |-> ""]

\* the (body, status) pairs the handlers return
ErrorReply(status, error) ==
    [status |-> status, error |-> Some(error), response |-> None, job_id |-> None]
UNAVAILABLE == ErrorReply(503, "Service temporarily unavailable")
INTERNAL_ERROR == ErrorReply(500, "Internal server error")

\* job.get_result(timeout=600) and the return or except Exception after it;
\* raises: the library reports a job without result by raising, else by None
wait_reply(outcome, raises, job_id) ==
    IF outcome = "finished"
    THEN [status |-> 200, error |-> None, response |-> Some(QueueResult), job_id |-> Some(job_id)]
    ELSE IF raises THEN INTERNAL_ERROR
    ELSE [status |-> 200, error |-> None, response |-> None, job_id |-> Some(job_id)]

enqueue_call_retracting(prompt, outcome) ==
    IF outcome \in {"timeout", "failed"} THEN jobs
    ELSE Append(jobs, [id |-> Len(jobs) + 1, args |-> prompt, status |-> outcome])

\* queue.enqueue_call(func=call_predict_response, args=(prompt,), ...)
enqueue_call(prompt, outcome) ==
    Append(jobs, [id |-> Len(jobs) + 1, args |-> prompt,
                  status |-> IF outcome = "timeout" THEN "queued" ELSE outcome])

\* the body of main.queue_generate_text; clean is the sanitized prompt
queue_request(prompt, clean, outcome, raises) ==
    LET valid == validate_prompt(clean)
        rejected == prompt = "" \/ ~valid.is_valid
        ic == is_connected
        available == ic.ret /\ queue # NULL
        enqueued == ~rejected /\ available /\ outcome # "enqueue_error"
    IN  /\ opCount < MaxOps
        /\ raises => outcome \in {"timeout", "failed"}
        /\ opCount' = opCount + 1
        /\ is_connected_flag' = IF rejected THEN is_connected_flag ELSE ic.flag
        /\ jobs' = IF enqueued THEN enqueue_call(clean, outcome) ELSE jobs
        /\ last' = [op |-> "queue_generate_text", prompt |-> prompt, outcome |-> outcome,
                    enqueued |-> enqueued,
                    reply |-> IF prompt = "" THEN ErrorReply(400, "Missing 'prompt' parameter")
                              ELSE IF ~valid.is_valid THEN ErrorReply(400, valid.error_msg)
                              ELSE IF ~available THEN UNAVAILABLE
                              ELSE IF outcome = "enqueue_error" THEN INTERNAL_ERROR
                              ELSE wait_reply(outcome, raises, Len(jobs) + 1)]
        /\ UNCHANGED <<redis_client, queue, connection_pool, backendUp, store, hit_count,
                       miss_count, getCalls, keyVars, pingPc, conn, running>>

\* main.queue_generate_text
queue_generate_text(prompt, outcome, raises) ==
    queue_request(prompt, sanitize_prompt(prompt), outcome, raises)

\* the body of api_queue.generate_text; clean is the sanitized prompt;
\* q.enqueue_call raises when the server is down
api_queue_request(prompt, clean, outcome, raises) ==
    LET valid == validate_prompt(clean)
        available == conn # NULL
        enqueued == valid.is_valid /\ available /\ outcome # "enqueue_error"
    IN  /\ opCount < MaxOps
        /\ raises => outcome \in {"timeout", "failed"}
        /\ ~backendUp => outcome = "enqueue_error"
        /\ opCount' = opCount + 1
        /\ jobs' = IF enqueued THEN enqueue_call(clean, outcome) ELSE jobs
        /\ last' = [op |-> "api_queue_generate_text", prompt |-> prompt, outcome |-> outcome,
                    enqueued |-> enqueued,
                    reply |-> IF ~valid.is_valid THEN ErrorReply(400, valid.error_msg)
                              ELSE IF ~available THEN UNAVAILABLE
                              ELSE IF outcome = "enqueue_error" THEN INTERNAL_ERROR
                              ELSE wait_reply(outcome, raises, Len(jobs) + 1)]
        /\ UNCHANGED <<redisVars, backendUp, store, hit_count, miss_count, getCalls,
                       keyVars, pingPc, conn, running>>

\* api_queue.generate_text
api_queue_generate_text(prompt, outcome, raises) ==
    api_queue_request(prompt, sanitize_prompt(prompt), outcome, raises)

\* a caller sanitizes a prompt, and may sanitize what it got once more
sanitize_prompt_call(prompt) ==
    /\ last.op = "init"
    /\ last' = [op |-> "sanitize_prompt", prompt |-> prompt, ret |-> sanitize_prompt(prompt)]
    /\ UNCHANGED <<redisVars, backendUp, cacheVars, keyVars, svcVars>>

sanitize_prompt_again ==
    /\ last.op = "sanitize_prompt"
    /\ last' = [op |-> "sanitize_prompt_again", prompt |-> last.ret,
                ret |-> sanitize_prompt(last.ret)]
    /\ UNCHANGED <<redisVars, backendUp, cacheVars, keyVars, svcVars>>

----------------------------------------------------------------------------
(* Cache operations and the queued request of main.py in a thread, while     *)
(* other threads use the shared RedisManager.  Each goes through the flag    *)
(* and the client test of is_connected, then the ping inside it, then the    *)
(* use of the handle; the manager holds no lock.                             *)

FlightOps == {"get", "set", "delete", "clear_all", "get_cache_info", "queue_generate_text"}
FlightTriple == <<"ping", "openrouter", "m1">>
FlightKey == _generate_cache_key(FlightTriple[1], FlightTriple[2], FlightTriple[3])
FlightPrompt == "hello"

no_entry_info == [cache_key |-> FlightKey, exists |-> FALSE, ttl |-> None, size |-> 0]

\* what the operation returns where it finds is_connected false
not_connected_result(op) ==
    CASE op = "get" -> miss_result
      [] op \in {"set", "delete", "clear_all"} -> FALSE
      [] op = "get_cache_info" -> no_entry_info
      [] op = "queue_generate_text" -> UNAVAILABLE

\* what the operation returns from its except Exception block
except_result(op) ==
    CASE op = "get" -> miss_result
      [] op \in {"set", "delete", "clear_all"} -> FALSE
      [] op = "get_cache_info" -> no_entry_info
      [] op = "queue_generate_text" -> INTERNAL_ERROR

\* the operation of thread t ends: ret is returned, or raised: an exception
\* leaves it; lost: it met a handle that was None
flight_return(t, op, ret, raised, lost) ==
    /\ last' = [op |-> op, thread |-> t, in_flight |-> TRUE, ret |-> ret,
                raised |-> raised, lost |-> lost]
    /\ running' = [running EXCEPT ![t] = IDLE]
    /\ opCount' = opCount + 1

\* self._is_connected and, in ping, the test of self._redis_client
flight_start(t, op) ==
    /\ running[t] = IDLE
    /\ opCount + Cardinality({u \in Threads : running[u] # IDLE}) < MaxOps
    /\ IF ~is_connected_flag \/ redis_client = NULL
       THEN /\ last' = [op |-> op, thread |-> t, in_flight |-> TRUE,
                        ret |-> not_connected_result(op), raised |-> FALSE, lost |-> FALSE]
            /\ opCount' = opCount + 1
            /\ running' = running
       ELSE /\ running' = [running EXCEPT ![t] = [op |-> op, pc |-> "ping"]]
            /\ UNCHANGED <<opCount, last>>
    /\ UNCHANGED <<redisVars, backendUp, store, hit_count, miss_count, getCalls, keyVars,
                   jobs, pingPc, conn>>

\* self._redis_client.ping() inside ping (lines 112-118), and for the queued
\* request the test of redis_mgr.queue after it.  A client that is None by
\* now raises AttributeError, which ping does not catch: it leaves
\* is_connected and, the test being outside the try of the cache operations,
\* leaves them too; queue_generate_text catches it and answers 500.
flight_ping(t) ==
    LET op == running[t].op
    IN  /\ op \in FlightOps
        /\ running[t].pc = "ping"
        /\ IF redis_client = NULL
           THEN /\ IF op = "queue_generate_text"
                   THEN flight_return(t, op, INTERNAL_ERROR, FALSE, TRUE)
                   ELSE flight_return(t, op, NULL, TRUE, TRUE)
                /\ UNCHANGED is_connected_flag
           ELSE IF ~backendUp
           THEN /\ is_connected_flag' = FALSE
                /\ flight_return(t, op, not_connected_result(op), FALSE, FALSE)
           ELSE IF op = "queue_generate_text" /\ queue = NULL
           THEN /\ flight_return(t, op, UNAVAILABLE, FALSE, TRUE)
                /\ UNCHANGED is_connected_flag
           ELSE /\ running' = [running EXCEPT ![t] = [op |-> op, pc |-> "use"]]
                /\ UNCHANGED <<is_connected_flag, opCount, last>>
        /\ UNCHANGED <<redis_client, queue, connection_pool, backendUp, store, hit_count,
                       miss_count, getCalls, keyVars, jobs, pingPc, conn>>

\* what the Redis calls of the operation do and return on a live handle
flight_effect(t, op) ==
    LET cached_data == redis_get(FlightKey)
        des == _deserialize_response(cached_data)
        hit == cached_data.kind # "absent" /\ ~des.raised /\ des.response # ""
        miss == ~hit /\ ~(cached_data.kind # "absent" /\ des.raised)
        cache_keys == redis_scan(cache_prefix)
        present == FlightKey \in DOMAIN store
    IN  /\ hit_count' = IF op = "get" /\ hit THEN hit_count + 1 ELSE hit_count
        /\ miss_count' = IF op = "get" /\ miss THEN miss_count + 1 ELSE miss_count
        /\ getCalls' = IF op = "get" THEN getCalls + 1 ELSE getCalls
        /\ store' = CASE op = "set" ->
                            redis_setex(FlightKey, default_ttl,
                                        _serialize_response(" p ", [method |-> "direct_generation"], 1))
                      [] op = "delete" -> redis_delete({FlightKey})
                      [] op = "clear_all" -> redis_delete(cache_keys)
                      [] OTHER -> store
        /\ jobs' = IF op = "queue_generate_text" THEN enqueue_call(FlightPrompt, "finished")
                   ELSE jobs
        /\ flight_return(t, op,
              CASE op = "get" -> IF hit THEN [response |-> Some(des.response),
                                             metadata |-> des.metadata]
                                 ELSE miss_result
                [] op = "set" -> TRUE
                [] op = "delete" -> present
                [] op = "clear_all" -> clear_all_result(cache_keys, Cardinality(cache_keys))
                [] op = "get_cache_info" ->
                      IF present
                      THEN [cache_key |-> FlightKey, exists |-> TRUE,
                            ttl |-> Some(store[FlightKey].ttl),
                            size |-> value_length(store[FlightKey].data)]
                      ELSE no_entry_info
                [] op = "queue_generate_text" -> wait_reply("finished", FALSE, Len(jobs) + 1),
              FALSE, FALSE)

\* the use of redis_mgr.client or redis_mgr.queue inside the try block: a
\* handle that is None by now raises AttributeError and a server that is down
\* a ConnectionError; the except Exception block of the operation returns
flight_use(t) ==
    LET op == running[t].op
        handle == IF op = "queue_generate_text" THEN queue ELSE redis_client
    IN  /\ op \in FlightOps
        /\ running[t].pc = "use"
        /\ IF handle = NULL \/ ~backendUp
           THEN /\ flight_return(t, op, except_result(op), FALSE, handle = NULL)
                /\ getCalls' = IF op = "get" THEN getCalls + 1 ELSE getCalls
                /\ UNCHANGED <<store, hit_count, miss_count, jobs>>
           ELSE flight_effect(t, op)
        /\ UNCHANGED <<redisVars, backendUp, keyVars, pingPc, conn>>

----------------------------------------------------------------------------
(* Direct generation: /generate of main.py *)

DirectPrompts == {"", " ", "hello"}
DirectOpenRouter == {[kind |-> "network_error", text |-> ""], [kind |-> "ok", text |-> "pong"]}
DirectGemini == {[kind |-> "exception", text |-> ""], [kind |-> "ok", text |-> "pong"],
                 [kind |-> "ok", text |-> " "]}

\* OpenRouter selected and its key present; the Gemini client may be missing
DirectConfigs == {cfg \in Configs : cfg.PROVIDER = "openrouter" /\ cfg.openrouter_key}

\* config.MODEL_NAME, line 76, with OPENROUTER_MODEL_NAME "m1" and
\* GEMINI_MODEL_NAME "m2"
MODEL_NAME(cfg) == IF cfg.PROVIDER = "openrouter" THEN "m1" ELSE "m2"

\* a validator without the test of the length
validate_generation_prompt_unbounded(prompt) ==
    IF prompt = "" THEN [is_valid |-> FALSE, error_msg |-> "Missing 'prompt' parameter"]
    ELSE IF Len(Strip(prompt)) = 0
    THEN [is_valid |-> FALSE, error_msg |-> "Prompt cannot be empty or only whitespace"]
    ELSE [is_valid |-> TRUE, error_msg |-> ""]

\* respond.validate_generation_prompt: (is_valid, error_msg)
validate_generation_prompt(prompt) ==
    IF prompt = "" THEN [is_valid |-> FALSE, error_msg |-> "Missing 'prompt' parameter"]
    ELSE IF Len(Strip(prompt)) = 0
    THEN [is_valid |-> FALSE, error_msg |-> "Prompt cannot be empty or only whitespace"]
    ELSE IF Len(Strip(prompt)) > 10000
    THEN [is_valid |-> FALSE, error_msg |-> "Prompt too long (max 10000 characters)"]
    ELSE [is_valid |-> TRUE, error_msg |-> ""]

\* the JSON body and status of a /generate answer
DirectReply(status, response, method, error) ==
    [status |-> status, response |-> response, method |-> method, error |-> error]

\* a handler that generates whether or not the cache answered
calls_predict_response_always(rejected, hit) == ~rejected

\* main.generate_text, lines 159-169: predict_response is reached only past
\* the validation returns and the return of the cached response
calls_predict_response(rejected, hit) == ~rejected /\ ~hit

\* the body of main.generate_text: validation, cache_mgr.get,
\* predict_response, cache_mgr.set.  clean is the sanitized prompt and r what
\* predict_response returns for it; getRaises, setRaises: the Redis call of
\* get, of set, raises.  set tests is_connected again; within one request it
\* answers as it did for get.
direct_request(prompt, clean, r, orOut, gemOut, getRaises, setRaises, now) ==
    LET valid == validate_generation_prompt(clean)
        rejected == prompt = "" \/ ~valid.is_valid
        ic == is_connected
        cache_key == _generate_cache_key(clean, config.PROVIDER, MODEL_NAME(config))
        cached_data == redis_get(cache_key)
        des == _deserialize_response(cached_data)
        fails == ic.ret /\ (getRaises \/ (cached_data.kind # "absent" /\ des.raised))
        hit == ~rejected /\ ic.ret /\ ~fails /\ cached_data.kind # "absent" /\ des.response # ""
        miss == ~rejected /\ ic.ret /\ ~fails /\ ~hit
        generates == calls_predict_response(rejected, hit)
        cache_metadata == [provider |-> config.PROVIDER, model |-> MODEL_NAME(config),
                           method |-> "direct_generation"]
        writes == generates /\ ~is_empty_response(r.ret) /\ ic.ret /\ ~setRaises
    IN  /\ opCount < MaxRequests
        /\ opCount' = opCount + 1
        /\ is_connected_flag' = IF rejected THEN is_connected_flag ELSE ic.flag
        /\ getCalls' = IF rejected THEN getCalls ELSE getCalls + 1
        /\ hit_count' = IF hit THEN hit_count + 1 ELSE hit_count
        /\ miss_count' = IF miss THEN miss_count + 1 ELSE miss_count
        /\ store' = IF writes
                    THEN redis_setex(cache_key, default_ttl,
                                     _serialize_response(r.ret, cache_metadata, now))
                    ELSE store
        /\ last' = [op |-> "generate_text", prompt |-> prompt,
                    openrouter |-> orOut, gemini |-> gemOut,
                    lookups |-> IF rejected THEN 0 ELSE 1,
                    hit |-> hit,
                    predicts |-> IF generates THEN 1 ELSE 0,
                    calls |-> IF generates THEN r.calls ELSE <<>>,
                    wrote |-> writes,
                    reply |-> IF prompt = ""
                              THEN DirectReply(400, None, None, Some("Missing 'prompt' parameter"))
                              ELSE IF ~valid.is_valid
                              THEN DirectReply(400, None, None, Some(valid.error_msg))
                              ELSE IF hit
                              THEN DirectReply(200, Some(des.response), Some("cached"), None)
                              ELSE DirectReply(200, Some(r.ret), Some("direct"), None)]
        /\ UNCHANGED <<redis_client, queue, connection_pool, backendUp, keyVars, svcVars>>

\* main.generate_text
generate_text(prompt, orOut, gemOut, getRaises, setRaises, now) ==
    direct_request(prompt, sanitize_prompt(prompt),
                   predict_response(sanitize_prompt(prompt), config, orOut, gemOut),
                   orOut, gemOut, getRaises, setRaises, now)

\* the body of respond.generate_text_endpoint: validation, predict_response.
\* clean is the sanitized prompt and r what predict_response returns for it
response_request(prompt, clean, r, orOut, gemOut) ==
    LET valid == validate_generation_prompt(clean)
    IN  /\ opCount < MaxRequests
        /\ opCount' = opCount + 1
        /\ last' = [op |-> "generate_text_endpoint", prompt |-> prompt,
                    openrouter |-> orOut, gemini |-> gemOut,
                    predicts |-> IF valid.is_valid THEN 1 ELSE 0,
                    calls |-> IF valid.is_valid THEN r.calls ELSE <<>>,
                    reply |-> IF ~valid.is_valid
                              THEN [status |-> 400, response |-> None, provider_used |-> None,
                                    error |-> Some(valid.error_msg)]
                              ELSE [status |-> 200, response |-> Some(r.ret),
                                    provider_used |-> Some(config.PROVIDER), error |-> None]]
        /\ UNCHANGED <<redisVars, backendUp, store, hit_count, miss_count, getCalls,
                       keyVars, svcVars>>

\* respond.generate_text_endpoint
generate_text_endpoint(prompt, orOut, gemOut) ==
    response_request(prompt, sanitize_prompt(prompt),
                     predict_response(sanitize_prompt(prompt), config, orOut, gemOut),
                     orOut, gemOut)

----------------------------------------------------------------------------
(* Health reporting *)

\* a health check that looks at the queue before it pings
health_check_queue_first(infoOk) ==
    IF redis_client = NULL
    THEN [connected |-> is_connected_flag, ping |-> FALSE, queue_available |-> FALSE,
          info_available |-> FALSE, error |-> Some("No Redis client available")]
    ELSE IF ~backendUp
    THEN [connected |-> is_connected_flag, ping |-> FALSE, queue_available |-> (queue # NULL),
          info_available |-> FALSE, error |-> Some("Ping failed")]
    ELSE [connected |-> is_connected_flag, ping |-> TRUE, queue_available |-> (queue # NULL),
          info_available |-> infoOk, error |-> None]

\* RedisManager.health_check; infoOk: client.info() returns a non-empty dict
health_check(infoOk) ==
    IF redis_client = NULL
    THEN [connected |-> is_connected_flag, ping |-> FALSE, queue_available |-> FALSE,
          info_available |-> FALSE, error |-> Some("No Redis client available")]
    ELSE IF ~backendUp
    THEN [connected |-> is_connected_flag, ping |-> FALSE, queue_available |-> FALSE,
          info_available |-> FALSE, error |-> Some("Ping failed")]
    ELSE [connected |-> is_connected_flag, ping |-> TRUE, queue_available |-> (queue # NULL),
          info_available |-> infoOk, error |-> None]

\* main.health_check: the report built from the manager's health and the
\* provider configuration; details is None when the key is not set
health_status(redis_health, cfg) ==
    LET redis == redis_health.connected
        generation == cfg.PROVIDER = "openrouter" \/ cfg.gemini_client # NULL
        overall == redis /\ generation
    IN  [overall |-> overall,
         redis |-> redis,
         queue |-> redis_health.queue_available,
         generation |-> generation,
         details |-> IF redis THEN None ELSE Some([redis_error |-> redis_health.error]),
         status_code |-> IF overall THEN 200 ELSE 503]

\* a call of RedisManager.health_check (main.health_check, initialize_service);
\* both of its Redis calls sit in try blocks that catch every exception
redis_health_check(infoOk) ==
    /\ last' = [op |-> "redis_health_check", health |-> health_check(infoOk)]
    /\ UNCHANGED <<redisVars, backendUp, cacheVars, keyVars, svcVars>>

\* GET /health of main.py
main_health_check(infoOk) ==
    /\ last' = [op |-> "health", report |-> health_status(health_check(infoOk), config)]
    /\ UNCHANGED <<redisVars, backendUp, cacheVars, keyVars, svcVars>>

\* the stages of api_queue.check_services_health and where one can fail:
\* conn.ping(), q.enqueue_call(test_worker), job.get_status(), job.delete()
\* and the GET of the response service's /health
HealthFailures == {"none", "ping", "enqueue", "get_status", "delete", "probe"}

\* a report that does not ask for the response service
all_healthy_without_probe(redis, worker, response_service) == redis /\ worker

\* all([...]), lines 144-148
all_healthy(redis, worker, response_service) == redis /\ worker /\ response_service

\* api_queue.check_services_health with the first failure at failAt; q is set
\* exactly when conn is (lines 41-48).  calls lists the outside calls made.
check_services_health(failAt) ==
    LET pinged == conn # NULL
        redis == pinged /\ failAt # "ping"
        enqueues == redis
        enqueued == enqueues /\ failAt # "enqueue"
        worker == enqueued /\ failAt \notin {"get_status", "delete"}
        probes == worker
        response_service == probes /\ failAt # "probe"
    IN  [redis |-> redis, worker |-> worker, response_service |-> response_service,
         overall |-> all_healthy(redis, worker, response_service),
         calls |-> (IF pinged THEN <<"ping">> ELSE <<>>)
                   \o (IF enqueues THEN <<"enqueue_call">> ELSE <<>>)
                   \o (IF probes THEN <<"get">> ELSE <<>>),
         left |-> enqueued /\ ~worker]

\* GET /health of api_queue.py; a test job whose get_status or delete failed
\* stays in the queue
api_queue_health_check(failAt) ==
    LET health == check_services_health(failAt)
    IN  /\ opCount < MaxOps
        /\ ~backendUp => failAt = "ping"
        /\ opCount' = opCount + 1
        /\ jobs' = IF health.left
                   THEN Append(jobs, [id |-> Len(jobs) + 1, args |-> "", status |-> "queued",
                                      func |-> "test_worker"])
                   ELSE jobs
        /\ last' = [op |-> "api_queue_health", failAt |-> failAt,
                    services |-> [redis |-> health.redis, worker |-> health.worker,
                                  response_service |-> health.response_service,
                                  overall |-> health.overall],
                    calls |-> health.calls,
                    status |-> IF health.overall THEN "healthy" ELSE "unhealthy",
                    status_code |-> IF health.overall THEN 200 ELSE 503]
        /\ UNCHANGED <<redisVars, backendUp, store, hit_count, miss_count, getCalls,
                       keyVars, pingPc, conn, running>>

Init ==
    /\ is_connected_flag = FALSE
    /\ redis_client = NULL
    /\ queue = NULL
    /\ connection_pool = NULL
    /\ backendUp \in BOOLEAN
    /\ store = [k \in {} |-> NULL]
    /\ hit_count = 0
    /\ miss_count = 0
    /\ getCalls = 0
    /\ opCount = 0
    /\ last = [op |-> "init"]
    /\ keyCalls = <<>>
    /\ jobs = <<>>
    /\ pingPc = "idle"
    /\ conn = CLIENT
    /\ running = [t \in Threads |-> IDLE]
    /\ config = DefaultConfig

Next ==
    \/ \E failAt \in ConnectStages : connect(failAt)
    \/ disconnect
    \/ BackendToggle
    \/ \E t \in Triples, raises \in BOOLEAN : get(t[1], t[2], t[3], raises)
    \/ \E t \in Triples, response \in Responses, metadata \in Metadatas,
          ttl \in TtlArgs, now \in Times, raises \in BOOLEAN :
            set(t[1], t[2], t[3], response, metadata, ttl, now, raises)
    \/ \E t \in Triples, raises \in BOOLEAN : delete(t[1], t[2], t[3], raises)
    \/ \E raises \in BOOLEAN : clear_all(raises)
    \/ \E raises \in BOOLEAN : get_stats(raises)
    \/ \E t \in Triples, raises \in BOOLEAN : get_cache_info(t[1], t[2], t[3], raises)
    \/ \E key \in DOMAIN store : Expire(key)
    \/ \E key \in DOMAIN store, kind \in CorruptKinds : Corrupt(key, kind)

Spec == Init /\ [][Next]_vars

\* the generation pipeline under every configuration
InitPipeline ==
    /\ is_connected_flag = FALSE
    /\ redis_client = NULL
    /\ queue = NULL
    /\ connection_pool = NULL
    /\ backendUp = TRUE
    /\ store = [k \in {} |-> NULL]
    /\ hit_count = 0
    /\ miss_count = 0
    /\ getCalls = 0
    /\ opCount = 0
    /\ last = [op |-> "init"]
    /\ keyCalls = <<>>
    /\ jobs = <<>>
    /\ pingPc = "idle"
    /\ conn = CLIENT
    /\ running = [t \in Threads |-> IDLE]
    /\ config \in Configs

NextPipeline ==
    \E prompt \in PipelinePrompts, orOut \in OpenRouterOutcomes, gemOut \in GeminiOutcomes :
        PredictResponse(prompt, orOut, gemOut)

SpecPipeline == InitPipeline /\ [][NextPipeline]_vars

\* the key derivation applied to inputs of the bounded sets
NextKey ==
    \E prompt \in KeyPrompts, provider \in KeyProviders, model \in KeyModels :
        GenerateCacheKey(prompt, provider, model)

SpecKey == Init /\ [][NextKey]_vars

\* the connection manager on its own, with a ping running in a second thread
NextRedis ==
    \/ \E failAt \in ConnectStages : connect(failAt)
    \/ disconnect
    \/ \E failAt \in ConnectStages : reconnect(failAt)
    \/ ping_check
    \/ ping_call
    \/ is_connected_access
    \/ \E outcomes \in ConnectOutcomes : initialize_redis(outcomes)
    \/ \E infoOk \in BOOLEAN : redis_health_check(infoOk)
    \/ BackendToggle

SpecRedis == Init /\ [][NextRedis]_vars

\* the /health endpoint over the connection manager, any configuration
InitHealth ==
    /\ is_connected_flag = FALSE
    /\ redis_client = NULL
    /\ queue = NULL
    /\ connection_pool = NULL
    /\ backendUp \in BOOLEAN
    /\ store = [k \in {} |-> NULL]
    /\ hit_count = 0
    /\ miss_count = 0
    /\ getCalls = 0
    /\ opCount = 0
    /\ last = [op |-> "init"]
    /\ keyCalls = <<>>
    /\ jobs = <<>>
    /\ pingPc = "idle"
    /\ conn = CLIENT
    /\ running = [t \in Threads |-> IDLE]
    /\ config \in Configs

NextHealth ==
    \/ \E failAt \in ConnectStages : connect(failAt)
    \/ disconnect
    \/ is_connected_access
    \/ BackendToggle
    \/ \E infoOk \in BOOLEAN : main_health_check(infoOk)

SpecHealth == InitHealth /\ [][NextHealth]_vars

\* the cache on one entry and the two queued-generation endpoints over the
\* connection manager
QueueTriple == <<"ping", "openrouter", "m1">>

InitQueue ==
    /\ is_connected_flag = FALSE
    /\ redis_client = NULL
    /\ queue = NULL
    /\ connection_pool = NULL
    /\ backendUp \in BOOLEAN
    /\ store = [k \in {} |-> NULL]
    /\ hit_count = 0
    /\ miss_count = 0
    /\ getCalls = 0
    /\ opCount = 0
    /\ last = [op |-> "init"]
    /\ keyCalls = <<>>
    /\ jobs = <<>>
    /\ pingPc = "idle"
    /\ conn \in {NULL, CLIENT}
    /\ running = [t \in Threads |-> IDLE]
    /\ config = DefaultConfig

NextQueue ==
    \/ \E failAt \in ConnectStages : connect(failAt)
    \/ disconnect
    \/ \E failAt \in {"none", "ping"} : reconnect(failAt)
    \/ BackendToggle
    \/ \E raises \in BOOLEAN : get(QueueTriple[1], QueueTriple[2], QueueTriple[3], raises)
    \/ \E raises \in BOOLEAN :
          set(QueueTriple[1], QueueTriple[2], QueueTriple[3], " p ",
              [method |-> "direct_generation"], None, 1, raises)
    \/ \E raises \in BOOLEAN : delete(QueueTriple[1], QueueTriple[2], QueueTriple[3], raises)
    \/ \E raises \in BOOLEAN : clear_all(raises)
    \/ \E prompt \in QueuePrompts, outcome \in JobOutcomes, raises \in BOOLEAN :
          queue_generate_text(prompt, outcome, raises)
    \/ \E prompt \in QueuePrompts, outcome \in JobOutcomes, raises \in BOOLEAN :
          api_queue_generate_text(prompt, outcome, raises)

SpecQueue == InitQueue /\ [][NextQueue]_vars

\* the /generate endpoint over the cache and the connection manager, any
\* configuration
InitDirect ==
    /\ is_connected_flag = FALSE
    /\ redis_client = NULL
    /\ queue = NULL
    /\ connection_pool = NULL
    /\ backendUp = TRUE
    /\ store = [k \in {} |-> NULL]
    /\ hit_count = 0
    /\ miss_count = 0
    /\ getCalls = 0
    /\ opCount = 0
    /\ last = [op |-> "init"]
    /\ keyCalls = <<>>
    /\ jobs = <<>>
    /\ pingPc = "idle"
    /\ conn = CLIENT
    /\ running = [t \in Threads |-> IDLE]
    /\ config \in DirectConfigs

NextDirect ==
    \/ connect("none")
    \/ BackendToggle
    \/ \E prompt \in DirectPrompts, orOut \in DirectOpenRouter, gemOut \in DirectGemini,
          getRaises \in BOOLEAN, setRaises \in BOOLEAN :
          generate_text(prompt, orOut, gemOut, getRaises, setRaises, 1)

SpecDirect == InitDirect /\ [][NextDirect]_vars

\* sanitize_prompt on every prompt of up to MaxPromptLen characters drawn
\* from a letter, the blanks, the line endings and a control character
SanitizeAlphabet == {"a", " ", "\t", "\n", "\r", "\f"}

RECURSIVE PromptsOfLength(_)
PromptsOfLength(n) ==
    IF n = 0 THEN {""}
    ELSE {s \o c : s \in PromptsOfLength(n - 1), c \in SanitizeAlphabet}

SanitizePrompts == UNION {PromptsOfLength(n) : n \in 0..MaxPromptLen}

NextSanitize ==
    \/ \E prompt \in SanitizePrompts : sanitize_prompt_call(prompt)
    \/ sanitize_prompt_again

SpecSanitize == Init /\ [][NextSanitize]_vars

\* the threads of one process in CacheManager.get on the shared cache
\* manager, over a connected manager and a stored entry
CounterTriples == {<<"ping", "openrouter", "m1">>, <<"hello", "openrouter", "m1">>}

NextCounters ==
    \/ connect("none")
    \/ set("ping", "openrouter", "m1", " p ", [method |-> "direct_generation"], None, 1, FALSE)
    \/ \E t \in Threads, tr \in CounterTriples : get_load(t, tr[1], tr[2], tr[3])
    \/ \E t \in Threads : get_store(t)

SpecCounters == Init /\ [][NextCounters]_vars

\* RedisManager.connect, disconnect and reconnect statement by statement, as
\* another thread sees them.  running[t].pc names the next statement:
\*   d_flag, d_client, d_queue   the three assignments of disconnect's finally
\*   c_pool, c_client, c_ping, c_flag, c_queue   the statements of connect's try
ManagerOps == {"connect", "disconnect", "reconnect"}

\* the call: connect starts at its try block; disconnect and reconnect start
\* at disconnect, whose close() changes no attribute
manager_call(t, op) ==
    /\ running[t] = IDLE
    /\ running' = [running EXCEPT ![t] =
                      [op |-> op, pc |-> IF op = "connect" THEN "c_pool" ELSE "d_flag"]]
    /\ UNCHANGED <<redisVars, backendUp, cacheVars, last, keyVars, jobs, pingPc, conn>>

\* the next statement of disconnect's finally block (lines 87-89); reconnect
\* goes on to connect after the last one
disconnect_step(t) ==
    LET pc == running[t].pc
    IN  /\ running[t] # IDLE
        /\ pc \in {"d_flag", "d_client", "d_queue"}
        /\ is_connected_flag' = IF pc = "d_flag" THEN FALSE ELSE is_connected_flag
        /\ redis_client' = IF pc = "d_client" THEN NULL ELSE redis_client
        /\ queue' = IF pc = "d_queue" THEN NULL ELSE queue
        /\ UNCHANGED connection_pool
        /\ IF pc = "d_queue" /\ running[t].op = "disconnect"
           THEN /\ running' = [running EXCEPT ![t] = IDLE]
                /\ last' = [op |-> "disconnect", thread |-> t]
           ELSE /\ running' = [running EXCEPT ![t].pc =
                                  IF pc = "d_flag" THEN "d_client"
                                  ELSE IF pc = "d_client" THEN "d_queue" ELSE "c_pool"]
                /\ UNCHANGED last
        /\ UNCHANGED <<backendUp, cacheVars, keyVars, jobs, pingPc, conn>>

\* the next statement of connect's try block (lines 45-62); raises: the
\* statement raises and an except block sets the flag false and returns False.
\* The ping raises whenever the server is down.
connect_step(t, raises) ==
    LET pc == running[t].pc
        done == raises \/ pc = "c_queue"
    IN  /\ running[t] # IDLE
        /\ pc \in {"c_pool", "c_client", "c_ping", "c_flag", "c_queue"}
        /\ pc = "c_flag" => ~raises
        /\ (pc = "c_ping" /\ ~backendUp) => raises
        /\ connection_pool' = IF pc = "c_pool" /\ ~raises THEN POOL ELSE connection_pool
        /\ redis_client' = IF pc = "c_client" /\ ~raises THEN CLIENT ELSE redis_client
        /\ is_connected_flag' = IF raises THEN FALSE
                                ELSE IF pc = "c_flag" THEN TRUE ELSE is_connected_flag
        /\ queue' = IF pc = "c_queue" /\ ~raises THEN QUEUE ELSE queue
        /\ IF done
           THEN /\ running' = [running EXCEPT ![t] = IDLE]
                /\ last' = [op |-> running[t].op, thread |-> t, ret |-> ~raises]
           ELSE /\ running' = [running EXCEPT ![t].pc =
                                  IF pc = "c_pool" THEN "c_client"
                                  ELSE IF pc = "c_client" THEN "c_ping"
                                  ELSE IF pc = "c_ping" THEN "c_flag" ELSE "c_queue"]
                /\ UNCHANGED last
        /\ UNCHANGED <<backendUp, cacheVars, keyVars, jobs, pingPc, conn>>

\* cache operations and queued requests in flight while the manager is
\* connected, disconnected and reconnected by another thread
NextInterleave ==
    \/ connect("none")
    \/ disconnect
    \/ \E failAt \in {"none", "ping"} : reconnect(failAt)
    \/ \E t \in Threads, op \in FlightOps : flight_start(t, op)
    \/ \E t \in Threads : flight_ping(t)
    \/ \E t \in Threads : flight_use(t)

SpecInterleave == Init /\ [][NextInterleave]_vars

\* the manager connected, disconnected and reconnected statement by
\* statement by several threads
NextHandles ==
    \/ BackendToggle
    \/ \E t \in Threads, op \in ManagerOps : manager_call(t, op)
    \/ \E t \in Threads : disconnect_step(t)
    \/ \E t \in Threads, raises \in BOOLEAN : connect_step(t, raises)

SpecHandles == Init /\ [][NextHandles]_vars

\* the queue service: its /generate and its /health
NextQueueService ==
    \/ BackendToggle
    \/ \E prompt \in QueuePrompts, outcome \in JobOutcomes, raises \in BOOLEAN :
          api_queue_generate_text(prompt, outcome, raises)
    \/ \E failAt \in HealthFailures : api_queue_health_check(failAt)

SpecQueueService == InitQueue /\ [][NextQueueService]_vars

\* the start of the main service in any environment; once it has started it
\* answers /health
InitStartup ==
    /\ is_connected_flag = FALSE
    /\ redis_client = NULL
    /\ queue = NULL
    /\ connection_pool = NULL
    /\ backendUp \in BOOLEAN
    /\ store = [k \in {} |-> NULL]
    /\ hit_count = 0
    /\ miss_count = 0
    /\ getCalls = 0
    /\ opCount = 0
    /\ last = [op |-> "init"]
    /\ keyCalls = <<>>
    /\ jobs = <<>>
    /\ pingPc = "idle"
    /\ conn = NULL
    /\ running = [t \in Threads |-> IDLE]
    /\ config \in {StartupConfig(env) : env \in Environments}

NextStartup ==
    \/ validate_configuration_call
    \/ \E outcomes \in ConnectOutcomes : initialize_service(outcomes)
    \/ /\ last.op \in {"initialize_service", "health"}
       /\ last.op = "initialize_service" => ~last.exited
       /\ \E infoOk \in BOOLEAN : main_health_check(infoOk)

SpecStartup == InitStartup /\ [][NextStartup]_vars

\* the four generation endpoints on prompts at the limits of validation; ""
\* stands for an absent prompt too, which every test of the handlers and of
\* sanitize_prompt treats as the empty string
ValidatePrompts == {"", " ", "hello", MaxPrompt, MaxPrompt \o " ", LongPrompt}

\* sanitize_prompt on each of these prompts, computed once
Sanitized == [prompt \in ValidatePrompts |-> sanitize_prompt(prompt)]

NextValidate ==
    \/ connect("none")
    \/ \E prompt \in ValidatePrompts, orOut \in DirectOpenRouter, gemOut \in DirectGemini :
          direct_request(prompt, Sanitized[prompt],
                         predict_response(Sanitized[prompt], config, orOut, gemOut),
                         orOut, gemOut, FALSE, FALSE, 1)
    \/ \E prompt \in ValidatePrompts, orOut \in DirectOpenRouter, gemOut \in DirectGemini :
          response_request(prompt, Sanitized[prompt],
                           predict_response(Sanitized[prompt], config, orOut, gemOut),
                           orOut, gemOut)
    \/ \E prompt \in ValidatePrompts, outcome \in {"enqueue_error", "finished"} :
          queue_request(prompt, Sanitized[prompt], outcome, FALSE)
    \/ \E prompt \in ValidatePrompts, outcome \in {"enqueue_error", "finished"} :
          api_queue_request(prompt, Sanitized[prompt], outcome, FALSE)

SpecValidate == InitDirect /\ [][NextValidate]_vars

\* the cache on two entries beside a key of the queue, with entries that
\* expire or are deleted by another worker in the middle of clear_all and
\* get_cache_info
ScanTriples == {<<"ping", "openrouter", "m1">>, <<"hello", "openrouter", "m1">>}

NextScan ==
    \/ connect("none")
    \/ BackendToggle
    \/ ForeignWrite
    \/ \E t \in ScanTriples, raises \in BOOLEAN : get(t[1], t[2], t[3], raises)
    \/ \E t \in ScanTriples, raises \in BOOLEAN :
          set(t[1], t[2], t[3], " p ", [method |-> "direct_generation"], None, 1, raises)
    \/ \E t \in ScanTriples, raises \in BOOLEAN : delete(t[1], t[2], t[3], raises)
    \/ \E raises \in BOOLEAN, vanished \in SUBSET DOMAIN store : clear_all_with(raises, vanished)
    \/ \E t \in ScanTriples, failAt \in InfoFailures, goneAt \in InfoRaces :
          get_cache_info_with(t[1], t[2], t[3], failAt, goneAt)

SpecScan == Init /\ [][NextScan]_vars

----------------------------------------------------------------------------
(* Properties of the response cache (checked under Spec) *)

IsGetStep == getCalls' = getCalls + 1
SameTriple(a, b) == a.prompt = b.prompt /\ a.provider = b.provider /\ a.model = b.model
Blank(response) == \A i \in 1..Len(response) : IsSpace(SubSeq(response, i, i))

\* C1: with the backend answering, set of a response that is not empty or
\* whitespace-only returns true, and a get on the same triple that directly
\* follows a successful set returns exactly the response that was set.
C1_CacheRoundTrip ==
    [][ /\ (last'.op = "set" /\ last'.connected /\ ~last'.raised /\ ~Blank(last'.response))
            => last'.ret = TRUE
        /\ (IsGetStep /\ last.op = "set" /\ last.ret = TRUE /\ SameTriple(last, last')
              /\ last'.connected /\ ~last'.raised)
            => last'.ret.response = <<last.response>> ]_vars

\* a get that hits as the second cache operation, right after the set
C1_Witness ==
    /\ last.op = "get" /\ last.ret.response = <<" p ">>
    /\ opCount = 2 /\ getCalls = 1 /\ hit_count = 1

\* C2: set with an empty or whitespace-only response returns false and leaves
\* the keyspace unchanged, and no cache document in the keyspace ever holds an
\* empty or whitespace-only response.
C2_NoEmptyResponseStored ==
    /\ [](\A k \in DOMAIN store :
            (StartsWith(k, cache_prefix) /\ store[k].data.kind = "object")
                => ~Blank(store[k].data.response))
    /\ [][ (last'.op = "set" /\ opCount' = opCount + 1 /\ Blank(last'.response))
            => (last'.ret = FALSE /\ store' = store) ]_vars

\* a connected set of " " was refused while the keyspace holds an entry
C2_Witness ==
    /\ last.op = "set" /\ last.connected /\ last.response = " " /\ last.ret = FALSE
    /\ DOMAIN store # {}

\* C3: every get that does not hit (key absent, payload that does not
\* deserialize, backend unavailable or the read raising) adds exactly one to
\* the miss counter and returns (None, {}); every hit adds exactly one to the
\* hit counter; so hits + misses equals the number of completed gets.
C3_EveryGetCounted ==
    /\ [](hit_count + miss_count = getCalls)
    /\ [][ IsGetStep =>
            IF last'.ret.response # None
            THEN hit_count' = hit_count + 1 /\ miss_count' = miss_count
            ELSE /\ miss_count' = miss_count + 1 /\ hit_count' = hit_count
                 /\ last'.ret = [response |-> <<>>, metadata |-> [k \in {} |-> "NULL"]] ]_vars

\* C4: the counters start at 0; with the backend answering, a get on an unset
\* key adds one miss and a get on a key written by set adds one hit; no other
\* operation changes a counter; get_stats reports total_requests = hits +
\* misses and hit_rate = hits / total_requests, or 0 when there were none.
C4_HitMissAccounting ==
    /\ hit_count = 0 /\ miss_count = 0
    /\ [][ /\ (IsGetStep /\ last'.connected /\ ~last'.raised /\ last'.stored = "absent")
                => (miss_count' = miss_count + 1 /\ hit_count' = hit_count)
           /\ (IsGetStep /\ last'.connected /\ ~last'.raised /\ last'.stored = "object")
                => (hit_count' = hit_count + 1 /\ miss_count' = miss_count)
           /\ ~IsGetStep => (hit_count' = hit_count /\ miss_count' = miss_count)
           /\ last'.op = "get_stats" =>
                LET st == last'.ret
                IN  /\ st.hits = hit_count' /\ st.misses = miss_count'
                    /\ st.total_requests = hit_count' + miss_count'
                    /\ st.hit_rate[2] # 0
                    /\ IF st.total_requests > 0
                       THEN st.hit_rate[1] * st.total_requests = hit_count' * st.hit_rate[2]
                       ELSE st.hit_rate[1] = 0 ]_vars

\* get_stats after a miss, a set and a hit reports the rate 1/2
C4_Witness ==
    /\ last.op = "get_stats" /\ hit_count = 1 /\ miss_count = 1 /\ opCount = 3
    /\ last.ret.total_requests = 2 /\ last.ret.hit_rate[1] * 2 = last.ret.hit_rate[2]

----------------------------------------------------------------------------
(* Properties of the key derivation (checked under SpecKey) *)

\* C5: for every provider and model, however long, two prompts whose 16-hex
\* digests differ get different cache keys.
C5_DistinctPromptsDistinctKeys ==
    \A i, j \in DOMAIN keyCalls :
        (/\ keyCalls[i].provider = keyCalls[j].provider
         /\ keyCalls[i].model = keyCalls[j].model
         /\ prompt_hash(keyCalls[i].prompt) # prompt_hash(keyCalls[j].prompt))
            => keyCalls[i].key # keyCalls[j].key

DiffersInOneField(a, b) ==
    \/ a.prompt # b.prompt /\ a.provider = b.provider /\ a.model = b.model
    \/ a.prompt = b.prompt /\ a.provider # b.provider /\ a.model = b.model
    \/ a.prompt = b.prompt /\ a.provider = b.provider /\ a.model # b.model

\* C6: equal (prompt, provider, model) always give the identical key, and
\* triples that differ in exactly one field give different keys unless the
\* prompt digests collide.
C6_KeyDeterminedByTriple ==
    \A i, j \in DOMAIN keyCalls :
        /\ SameTriple(keyCalls[i], keyCalls[j]) => keyCalls[i].key = keyCalls[j].key
        /\ (/\ DiffersInOneField(keyCalls[i], keyCalls[j])
            /\ (keyCalls[i].prompt # keyCalls[j].prompt
                  => prompt_hash(keyCalls[i].prompt) # prompt_hash(keyCalls[j].prompt)))
              => keyCalls[i].key # keyCalls[j].key

----------------------------------------------------------------------------
(* Properties of the generation pipeline (checked under SpecPipeline) *)

Alternate(provider) == IF provider = "openrouter" THEN "gemini" ELSE "openrouter"

\* the provider capability fails in this invocation: no credentials or client,
\* a failed or unusable API response, or no text in it
ProviderFails(provider) ==
    IF provider = "openrouter"
    THEN ~config.openrouter_key \/ last.openrouter.kind # "ok" \/ Blank(last.openrouter.text)
    ELSE config.gemini_client = "NULL" \/ last.gemini.kind # "ok" \/ Blank(last.gemini.text)

\* the text the provider's API produced in this invocation
ProviderText(provider) ==
    IF provider = "openrouter" THEN Strip(last.openrouter.text) ELSE Strip(last.gemini.text)

Absent(result) == result = <<>> \/ result = <<"">>

ProviderMessages == {"Error: AI model not configured.",
                     "AI response generation failed or was blocked.",
                     "Error generating AI response."}

\* C7: the primary provider is called first; if it fails, the alternate is
\* called with the same prompt; and when the alternate then returns text X,
\* predict_response returns a string that contains X and is not the
\* all-providers-failed message.
C7_FallbackOrder ==
    last.op = "predict_response" =>
        /\ last.calls[1].provider = config.PROVIDER
        /\ ProviderFails(config.PROVIDER) =>
            /\ Len(last.calls) = 2
            /\ last.calls[2].provider = Alternate(config.PROVIDER)
            /\ last.calls[2].prompt = last.calls[1].prompt
            /\ ~ProviderFails(Alternate(config.PROVIDER)) =>
                /\ Contains(last.ret, ProviderText(Alternate(config.PROVIDER)))
                /\ last.ret # "Error: Unable to generate response from any provider."

\* C8: when both providers fail in one invocation, predict_response returns
\* exactly the terminal message, which is none of the providers' own failure
\* messages and carries no "Okay. I received" prefix.
C8_TotalFailureMessage ==
    (/\ last.op = "predict_response"
     /\ ProviderFails("openrouter")
     /\ ProviderFails("gemini"))
        => /\ last.ret = "Error: Unable to generate response from any provider."
           /\ last.ret \notin ProviderMessages
           /\ ~StartsWith(last.ret, "Okay. I received")

\* C9: a provider that fails hands predict_response None or the empty string,
\* never a non-empty text.
C9_FailureSurfacesAsAbsent ==
    last.op = "predict_response" =>
        \A i \in DOMAIN last.calls :
            ProviderFails(last.calls[i].provider) => Absent(last.calls[i].result)

----------------------------------------------------------------------------
(* RedisManager: connection life cycle *)

\* C12: a connect that fails returns false without raising and leaves the
\* manager unconnected, with no client or queue handle of the failed attempt
\* exposed; a connect that succeeds returns true with the flag true and the
\* client and queue handles set.
C12_ConnectAllOrNothing ==
    last.op = "connect" =>
        /\ last.ret => is_connected_flag /\ redis_client = CLIENT /\ queue = QUEUE
        /\ ~last.ret =>
              /\ ~is_connected_flag
              /\ redis_client # NULL => last.failAt \in {"pool", "client"}
              /\ queue # NULL => last.failAt # "none"

\* C13: after disconnect the manager is unconnected, the pool released and
\* the client and queue handles cleared; a second disconnect changes nothing.
C13_DisconnectClearsAll ==
    /\ [](last.op = "disconnect" =>
            /\ ~is_connected_flag
            /\ redis_client = NULL
            /\ queue = NULL
            /\ connection_pool = NULL)
    /\ [][last.op = "disconnect" /\ last'.op = "disconnect" => redisVars' = redisVars]_vars

\* a step that reads is_connected (and nothing else happened)
IsAccessStep == last'.op = "is_connected" /\ backendUp' = backendUp /\ pingPc' = pingPc

\* C14: is_connected is true only if the flag is true and the ping of that
\* very access succeeds; whoever reads true and then client in the same step
\* holds a handle that is not null and whose last ping succeeded.
C14_IsConnectedPingsFresh ==
    [][IsAccessStep /\ last'.ret =>
          /\ is_connected_flag
          /\ redis_client # NULL
          /\ backendUp
          /\ last'.client # NULL
          /\ last'.client = redis_client']_vars

\* is_connected answered true on a live connection
C14_Witness ==
    /\ last.op = "is_connected"
    /\ last.ret
    /\ last.client = CLIENT
    /\ is_connected_flag

\* C15: ping returns true iff a client exists and the backend answers; on
\* every failure, a client cleared by a concurrent disconnect included, it
\* returns false without raising, and a failed backend call sets the flag
\* to false.
C15_PingNeverRaises ==
    last.op = "ping" =>
        /\ ~last.raised
        /\ last.ret <=> (last.client # NULL /\ last.answered)
        /\ (last.client # NULL /\ ~last.answered) => ~last.flag

\* C16: reconnect returns connect's result; true leaves the manager connected
\* with client and queue handles created by this call; false leaves it
\* unconnected with the flag false and the queue null.
C16_ReconnectIsDisconnectThenConnect ==
    last.op = "reconnect" =>
        /\ last.ret <=> (last.failAt = "none")
        /\ last.ret =>
              /\ is_connected_flag
              /\ redis_client = CLIENT /\ last.client_created
              /\ queue = QUEUE /\ last.queue_created
        /\ ~last.ret =>
              /\ ~is_connected_flag
              /\ queue = NULL
              /\ redis_client # NULL => last.client_created

\* a reconnect that failed on a manager that had been connected
C16_Witness ==
    /\ last.op = "reconnect"
    /\ ~last.ret
    /\ connection_pool = POOL
    /\ queue = NULL

\* C17: initialize_redis calls connect at most 3 times, stops at the first
\* success and returns true there, returns false iff all 3 attempts fail,
\* and leaves the manager unconnected when it returns false.
C17_InitializeRetries ==
    last.op = "initialize_redis" =>
        /\ last.attempts \in 1..3
        /\ last.ret =>
              /\ last.outcomes[last.attempts] = "none"
              /\ \A j \in 1..(last.attempts - 1) : last.outcomes[j] # "none"
        /\ ~last.ret <=> (last.attempts = 3 /\ \A i \in 1..3 : last.outcomes[i] # "none")
        /\ (\E i \in 1..3 : last.outcomes[i] = "none") => last.ret
        /\ ~last.ret => ~is_connected_flag /\ ~is_connected.ret

\* initialize_redis succeeded at its second attempt
C17_Witness ==
    /\ last.op = "initialize_redis"
    /\ last.ret
    /\ last.attempts = 2
    /\ is_connected_flag

----------------------------------------------------------------------------
(* Health reporting *)

\* C18: in the report of the main /health check, overall is true if and only
\* if the redis, queue and generation sub-checks are all true, in every
\* reachable connection state.
C18_OverallIffAllChecks ==
    last.op = "health" =>
        (last.report.overall <=>
            (last.report.redis /\ last.report.queue /\ last.report.generation))

\* C19: when the redis sub-check is false no further sub-check is evaluated:
\* queue and generation are reported false, and details carries the non-null
\* error that made the redis check fail.
C19_RedisFailureShortCircuits ==
    (last.op = "health" /\ ~last.report.redis) =>
        /\ ~last.report.queue
        /\ ~last.report.generation
        /\ last.report.details # None
        /\ last.report.details[1].redis_error # None

----------------------------------------------------------------------------
(* Degraded connection and queued generation *)

\* the manager is unconnected, or its ping would fail
Degraded == ~is_connected_flag \/ redis_client = NULL \/ ~backendUp

\* C11: with the manager unconnected or the ping failing, get returns
\* (absent, {}), set, delete and clear_all return false and write nothing,
\* and a queued-generation request with a valid prompt returns 503 "Service
\* temporarily unavailable" without enqueuing; each returns a value to its
\* caller.
C11_DegradedOperationsAnswer ==
    [][(opCount' = opCount + 1 /\ Degraded) =>
          /\ last'.op = "get" => last'.ret = miss_result
          /\ last'.op \in {"set", "delete", "clear_all"} =>
                last'.ret = FALSE /\ store' = store
          /\ (last'.op = "queue_generate_text" /\ Strip(last'.prompt) # "") =>
                /\ last'.reply.status = 503
                /\ last'.reply.error = Some("Service temporarily unavailable")
                /\ ~last'.enqueued
                /\ jobs' = jobs]_vars

\* a queued-generation request met a connected manager whose server had
\* stopped answering, and was turned away
C11_Witness ==
    /\ last.op = "queue_generate_text"
    /\ last.reply.status = 503
    /\ redis_client # NULL
    /\ queue # NULL
    /\ ~backendUp
    /\ jobs = <<>>

IsQueueRequest(l) == l.op \in {"queue_generate_text", "api_queue_generate_text"}

\* C20: a wait that timed out and a job whose execution failed are never
\* reported to the caller with the same status and error.
C20_TimeoutDistinctFromFailure ==
    [][(/\ IsQueueRequest(last) /\ last.enqueued /\ last.outcome = "timeout"
        /\ IsQueueRequest(last') /\ last'.enqueued /\ last'.outcome = "failed")
       => <<last.reply.status, last.reply.error>> # <<last'.reply.status, last'.reply.error>>]_vars

\* C21: a queued-generation request with a valid prompt submits a job only
\* while the backend is reachable, and whenever the backend is not reachable
\* it answers 503 and not a generic internal error, in both
\* main.queue_generate_text and api_queue.generate_text.
C21_UnreachableBackendAnswers503 ==
    [][(opCount' = opCount + 1 /\ IsQueueRequest(last') /\ Strip(last'.prompt) # "") =>
          /\ last'.enqueued => backendUp
          /\ ~backendUp => (last'.reply.status = 503 /\ ~last'.enqueued)]_vars

----------------------------------------------------------------------------
(* Direct generation (checked under SpecDirect) *)

\* a /generate request that passed validation
IsDirectStep == opCount' = opCount + 1 /\ last'.op = "generate_text" /\ last'.lookups = 1

\* C22: the direct generate operation consults the cache first; on a hit it
\* returns the cached response with method "cached", calls no provider and
\* writes nothing to the cache; only on a miss it calls predict_response,
\* exactly once, and returns its result with method "direct".
C22_CacheBeforeProviders ==
    [][IsDirectStep =>
          LET cache_key == _generate_cache_key(sanitize_prompt(last'.prompt), config.PROVIDER,
                                               MODEL_NAME(config))
          IN  IF last'.hit
              THEN /\ cache_key \in DOMAIN store
                   /\ last'.reply.status = 200
                   /\ last'.reply.method = Some("cached")
                   /\ last'.reply.response = Some(store[cache_key].data.response)
                   /\ last'.predicts = 0
                   /\ last'.calls = <<>>
                   /\ ~last'.wrote
                   /\ store' = store
              ELSE /\ last'.predicts = 1
                   /\ Len(last'.calls) >= 1
                   /\ last'.reply.status = 200
                   /\ last'.reply.method = Some("direct")]_vars

\* a second request for "hello" was answered from the cache
C22_Witness ==
    /\ last.op = "generate_text"
    /\ last.hit
    /\ last.reply.method = Some("cached")
    /\ opCount = 2
    /\ hit_count = 1

\* the text is a failure report and not generated text
IsFailureText(text) ==
    \/ text = "Error: Unable to generate response from any provider."
    \/ StartsWith(text, "Error:")
    \/ \E m \in ProviderMessages :
          Len(text) >= Len(m) /\ SubSeq(text, Len(text) - Len(m) + 1, Len(text)) = m

\* C23: every cache entry holds text produced by a successful generation; a
\* request whose generation failed (all providers failed, or a provider
\* handed back an error message) writes no cache entry.
C23_OnlySuccessesCached ==
    /\ \A k \in DOMAIN store : ~IsFailureText(store[k].data.response)
    /\ (/\ last.op = "generate_text"
        /\ last.calls # <<>>
        /\ ProviderFails(last.calls[Len(last.calls)].provider))
       => ~last.wrote

----------------------------------------------------------------------------
(* Clearing, deleting and inspecting entries (checked under SpecScan) *)

IsClearStep == opCount' = opCount + 1 /\ last'.op = "clear_all"
IsInfoStep == last'.op = "get_cache_info" /\ backendUp' = backendUp
IsCacheKey(k) == StartsWith(k, cache_prefix)

\* C24: with the backend connected and nothing else writing, after clear_all
\* no key under the cache prefix is left, so get_cache_info on a cleared
\* triple reports exists = false and get reports a miss; every key outside
\* the cache prefix is left as it was.
C24_ClearAllRemovesOnlyCacheKeys ==
    /\ [][(IsClearStep /\ ~Degraded /\ ~last'.raised) =>
             /\ \A k \in DOMAIN store' : ~IsCacheKey(k)
             /\ \A k \in DOMAIN store :
                   ~IsCacheKey(k) => (k \in DOMAIN store' /\ store'[k] = store[k])]_vars
    /\ [][(IsInfoStep /\ last'.ret.cache_key \notin DOMAIN store) =>
             ~last'.ret.exists]_vars
    /\ [][(IsGetStep /\ last'.op = "get" /\ last'.cache_key \notin DOMAIN store) =>
             last'.ret = miss_result]_vars

\* two entries were cleared and the queue's key is still there
C24_Witness ==
    /\ last.op = "clear_all"
    /\ last.ret
    /\ last.cleared = 2
    /\ DOMAIN store = {FOREIGN_KEY}

\* C25: clear_all returns false when the backend is unavailable, and true
\* whenever the backend answers for the whole call -- also when the cache was
\* already empty, and when keys found by the scan were gone before the bulk
\* delete ran.
C25_ClearAllReturnValue ==
    [][IsClearStep =>
          /\ Degraded => ~last'.ret
          /\ (~Degraded /\ ~last'.raised) =>
                /\ last'.ret
                /\ \A k \in DOMAIN store' : ~IsCacheKey(k)]_vars

IsDeleteStep == opCount' = opCount + 1 /\ last'.op = "delete"

\* C26: delete removes the entry of the triple if present and returns true
\* iff an entry was removed (false when the key was absent or the backend
\* unavailable); all other keys stay as they were, and a get of the same
\* triple right after a delete is a miss.
C26_DeleteRemovesOneEntry ==
    /\ [][IsDeleteStep =>
             LET k == last'.cache_key
             IN  /\ last'.ret <=> (k \in DOMAIN store /\ k \notin DOMAIN store')
                 /\ (Degraded \/ k \notin DOMAIN store) => ~last'.ret
                 /\ (~Degraded /\ ~last'.raised /\ k \in DOMAIN store) => last'.ret
                 /\ DOMAIN store' \subseteq DOMAIN store
                 /\ \A j \in DOMAIN store \ {k} :
                       j \in DOMAIN store' /\ store'[j] = store[j]]_vars
    /\ [][(/\ IsGetStep /\ last'.op = "get"
           /\ last.op = "delete" /\ last.cache_key = last'.cache_key
           /\ last.connected /\ ~last.raised)
          => last'.ret = miss_result]_vars

\* an entry was deleted beside a second entry and the queue's key
C26_Witness ==
    /\ last.op = "delete"
    /\ last.ret
    /\ FOREIGN_KEY \in DOMAIN store
    /\ Cardinality(DOMAIN store) = 2

\* C27: get_cache_info reports exists = false, ttl = None and size = 0 when
\* the entry is absent or the backend unavailable; when it reports
\* exists = true it reports the backend's remaining TTL and a size greater
\* than 0 equal to the length of the stored value -- also when the entry
\* expires or is deleted while get_cache_info runs.
C27_CacheInfoConsistent ==
    [][IsInfoStep =>
          LET r == last'.ret
              k == r.cache_key
          IN  /\ (k \notin DOMAIN store \/ Degraded) =>
                    (~r.exists /\ r.ttl = None /\ r.size = 0)
              /\ r.exists =>
                    /\ k \in DOMAIN store
                    /\ r.ttl = Some(store[k].ttl)
                    /\ r.size > 0
                    /\ r.size = value_length(store[k].data)]_vars

----------------------------------------------------------------------------
(* Validation before the core *)

IsGenerationStep ==
    /\ opCount' = opCount + 1
    /\ last'.op \in {"generate_text", "generate_text_endpoint", "queue_generate_text",
                     "api_queue_generate_text"}

\* the request looked nothing up, called no provider, enqueued nothing and
\* did not so much as ping the backend
CoreUntouched ==
    /\ getCalls' = getCalls
    /\ hit_count' = hit_count
    /\ miss_count' = miss_count
    /\ store' = store
    /\ jobs' = jobs
    /\ is_connected_flag' = is_connected_flag
    /\ last'.op \in {"generate_text", "generate_text_endpoint"}
          => last'.predicts = 0 /\ last'.calls = <<>>
    /\ last'.op = "generate_text" => last'.lookups = 0
    /\ last'.op \in {"queue_generate_text", "api_queue_generate_text"} => ~last'.enqueued

\* the request went past validation into the handler's core
CoreReached ==
    /\ last'.reply.status # 400
    /\ last'.op = "generate_text" => last'.lookups = 1 /\ getCalls' = getCalls + 1
    /\ last'.op = "generate_text_endpoint" => last'.predicts = 1 /\ last'.calls # <<>>
    /\ last'.op \in {"queue_generate_text", "api_queue_generate_text"}
          => last'.enqueued \/ last'.reply.status \in {500, 503}

\* C28: on each of the four generation endpoints a prompt that is absent,
\* empty, blank once sanitized or longer than 10000 characters once sanitized
\* is answered 400 before any cache lookup, provider call or enqueue, and a
\* prompt of 1 to 10000 characters once sanitized passes validation
C28_ValidationPrecedesCore ==
    [][IsGenerationStep =>
          LET clean == Sanitized[last'.prompt]
          IN  /\ (Len(clean) = 0 \/ Len(clean) > 10000)
                    => last'.reply.status = 400 /\ CoreUntouched
              /\ (Len(clean) >= 1 /\ Len(clean) <= 10000) => CoreReached]_vars

\* a prompt one character too long was refused while the cache was connected
\* and held an entry
C28_Witness ==
    /\ last.op = "generate_text"
    /\ last.prompt = LongPrompt
    /\ last.reply.status = 400
    /\ is_connected_flag
    /\ DOMAIN store # {}

----------------------------------------------------------------------------
(* Startup credential check *)

CredentialIssues == {NO_API_KEYS, NO_GEMINI_KEY, NO_FALLBACK_KEY}

HasCredentialIssue(issues) == \E i \in 1..Len(issues) : issues[i] \in CredentialIssues

\* the selected provider can find a key where it looks for one
PrimaryHasCredential(env) ==
    IF env.PROVIDER = "openrouter" THEN _resolve_openrouter_api_key(env)
    ELSE GEMINI_API_KEY(env)

\* C29: validate_configuration reports a credential issue exactly when the
\* selected provider has no credential, and initialize_service exits whenever
\* it has none
C29_CredentialIssueIffPrimaryLacksKey ==
    /\ last.op = "validate_configuration"
          => (HasCredentialIssue(last.ret.issues) <=> ~PrimaryHasCredential(config.env))
    /\ last.op = "initialize_service"
          => /\ HasCredentialIssue(last.issues) <=> ~PrimaryHasCredential(config.env)
             /\ ~PrimaryHasCredential(config.env) => last.exited

----------------------------------------------------------------------------
(* Health of the queue service *)

\* C30: the report of api_queue's /health has overall true, and status 200,
\* exactly when the Redis ping, the test enqueue and the probe of the
\* response service were all made and none failed; when Redis is unavailable
\* neither the enqueue nor the probe is made and the status is 503
C30_QueueHealthIffAllSucceed ==
    last.op = "api_queue_health" =>
        LET made(call) == \E i \in 1..Len(last.calls) : last.calls[i] = call
            pingOk == made("ping") /\ last.failAt # "ping"
            enqueueOk == made("enqueue_call") /\ last.failAt # "enqueue"
            probeOk == made("get") /\ last.failAt # "probe"
        IN  /\ last.services.overall <=> (pingOk /\ enqueueOk /\ probeOk)
            /\ last.status_code = IF last.services.overall THEN 200 ELSE 503
            /\ ~pingOk => ~made("enqueue_call") /\ ~made("get") /\ last.status_code = 503

\* a healthy report made while earlier jobs were in the queue
C30_Witness ==
    /\ last.op = "api_queue_health"
    /\ last.services.overall
    /\ last.status_code = 200
    /\ last.calls = <<"ping", "enqueue_call", "get">>
    /\ Len(jobs) > 0

----------------------------------------------------------------------------
(* sanitize_prompt *)

IsSanitizeStep == last.op \in {"sanitize_prompt", "sanitize_prompt_again"}

NoLongNewlineRun(s) == ~Contains(s, "\n\n\n")
NoBlankRun(s) ==
    \A i \in 1..(Len(s) - 1) :
        ~(SubSeq(s, i, i) \in {" ", "\t"} /\ SubSeq(s, i + 1, i + 1) \in {" ", "\t"})
NoControlChar(s) == \A i \in 1..Len(s) : SubSeq(s, i, i) \notin ControlChars
NoCarriageReturnNewline(s) == ~Contains(s, "\r\n")
NoOuterWhitespace(s) == s = Strip(s)

\* C31: what sanitize_prompt returns has no run of three newlines, no run of
\* two blanks, no control character, no carriage-return/newline pair and no
\* leading or trailing whitespace, and sanitizing it again returns it unchanged
C31_SanitizePostcondition ==
    IsSanitizeStep =>
        /\ NoLongNewlineRun(last.ret)
        /\ NoBlankRun(last.ret)
        /\ NoControlChar(last.ret)
        /\ NoCarriageReturnNewline(last.ret)
        /\ NoOuterWhitespace(last.ret)
        /\ last.op = "sanitize_prompt_again" => last.ret = last.prompt

----------------------------------------------------------------------------
(* The pipeline as a state machine *)

\* C32: one invocation of predict_response calls the primary provider first
\* and once, calls the alternate provider at most once and only after the
\* primary returned no text, calls no provider twice, and neither reads nor
\* writes the cache
C32_PipelineStateMachine ==
    /\ [](last.op = "predict_response" =>
            /\ Len(last.calls) \in {1, 2}
            /\ last.calls[1].provider = config.PROVIDER
            /\ Len(last.calls) = 2 =>
                  /\ last.calls[2].provider = Alternate(config.PROVIDER)
                  /\ Absent(last.calls[1].result)
                  /\ ProviderFails(config.PROVIDER))
    /\ [][last'.op = "predict_response" =>
            /\ store' = store
            /\ getCalls' = getCalls
            /\ hit_count' = hit_count
            /\ miss_count' = miss_count
            /\ keyCalls' = keyCalls]_vars

\* Gemini, the primary, returned blank text and OpenRouter was asked next
C32_Witness ==
    /\ last.op = "predict_response"
    /\ config.PROVIDER = "gemini"
    /\ Len(last.calls) = 2
    /\ last.calls[2].provider = "openrouter"
    /\ last.calls[2].result # None

\* the text the last provider asked returned
LastProviderText == OrEmpty(last.calls[Len(last.calls)].result)

\* C33: predict_response always returns, and what it returns is not empty:
\* the text of the last provider it asked, that text after the
\* acknowledgement of the prompt, or the all-providers-failed message
C33_PredictResponseTotal ==
    last.op = "predict_response" =>
        /\ last.ret # ""
        /\ \/ last.ret = ALL_FAILED /\ LastProviderText = ""
           \/ /\ LastProviderText # ""
              /\ StartsWith(last.prompt, TEST_PREFIX)
              /\ last.ret = LastProviderText
           \/ /\ LastProviderText # ""
              /\ ~StartsWith(last.prompt, TEST_PREFIX)
              /\ last.ret = "Okay. I received \"" \o last.prompt \o "\".\n\n" \o LastProviderText

\* both providers were asked and neither returned text
C33_Witness ==
    /\ last.op = "predict_response"
    /\ Len(last.calls) = 2
    /\ last.ret = ALL_FAILED

----------------------------------------------------------------------------
(* Counters under concurrent gets *)

\* a get that found the manager connected returns
IsCountedGetReturn ==
    /\ getCalls' = getCalls + 1
    /\ last'.op = "get"
    /\ last'.connected
    /\ ~last'.raised

\* C34: with the backend available every get that returns has raised
\* hits + misses by one, whatever other gets run at the same time, and
\* neither counter ever decreases
C34_NoLostIncrement ==
    /\ [][IsCountedGetReturn => hit_count' + miss_count' = hit_count + miss_count + 1]_vars
    /\ [][hit_count' >= hit_count /\ miss_count' >= miss_count]_vars

----------------------------------------------------------------------------
(* Operations in flight across a disconnect or reconnect *)

IsFlightReturn == last.op \in FlightOps /\ DOMAIN last = {"op", "thread", "in_flight", "ret", "raised", "lost"}

\* C35: a cache operation or queued request that runs while another thread
\* disconnects or reconnects the manager never lets an exception reach its
\* caller, and when it meets a handle that has become None it returns its
\* unavailable result: absent for get, False for set, delete and clear_all,
\* no entry for get_cache_info, 503 for the queued request
C35_InFlightFailsFast ==
    IsFlightReturn =>
        /\ ~last.raised
        /\ last.lost => last.ret = not_connected_result(last.op)

----------------------------------------------------------------------------
(* RedisManager.health_check *)

\* C36: RedisManager.health_check leaves the flag, the client, the queue and
\* the pool as they were, and its report has queue_available or
\* info_available true only with ping true
C36_HealthCheckReadOnly ==
    [][last'.op = "redis_health_check" /\ last' # last =>
          /\ is_connected_flag' = is_connected_flag
          /\ redis_client' = redis_client
          /\ queue' = queue
          /\ connection_pool' = connection_pool
          /\ (last'.health.queue_available \/ last'.health.info_available)
                => last'.health.ping]_vars

\* a check of a manager whose flag is set while the server is down
C36_Witness ==
    /\ last.op = "redis_health_check"
    /\ is_connected_flag
    /\ queue # NULL
    /\ ~backendUp
    /\ ~last.health.ping
    /\ ~last.health.queue_available

\* C40: a report of RedisManager.health_check with connected true has ping
\* true and no error
C40_ConnectedImpliesPing ==
    (last.op = "redis_health_check" /\ last.health.connected) =>
        last.health.ping /\ last.health.error = None

----------------------------------------------------------------------------
(* The submitted job after the request (checked under SpecQueue) *)

\* C37: a queued-generation request that enqueued its job leaves exactly that
\* job behind, whatever became of the wait: the jobs submitted earlier are
\* unchanged, the new job is still queued after a timed-out wait and keeps
\* its final status otherwise; a request that enqueued nothing leaves the
\* queue as it was, and no step ever removes a job.
C37_JobNotRetracted ==
    [][/\ Len(jobs') >= Len(jobs)
       /\ SubSeq(jobs', 1, Len(jobs)) = jobs
       /\ (opCount' = opCount + 1 /\ IsQueueRequest(last')) =>
             IF last'.enqueued
             THEN /\ Len(jobs') = Len(jobs) + 1
                  /\ jobs'[Len(jobs')].args = Strip(last'.prompt)
                  /\ jobs'[Len(jobs')].status =
                        (IF last'.outcome = "timeout" THEN "queued" ELSE last'.outcome)
             ELSE jobs' = jobs]_vars

\* two requests enqueued; the first one's wait timed out, the second one's
\* job failed, and both jobs are there
C37_Witness ==
    /\ IsQueueRequest(last)
    /\ last.enqueued
    /\ last.outcome = "failed"
    /\ Len(jobs) = 2
    /\ jobs[1].status = "queued"
    /\ jobs[2].status = "failed"

----------------------------------------------------------------------------
(* The handles behind the connected flag (checked under SpecHandles) *)

\* C38: in every state any thread can observe, the intermediate states of a
\* running connect, disconnect or reconnect included, a true _is_connected
\* comes with a client handle and a queue handle that are both set.
C38_ConnectedImpliesHandles ==
    is_connected_flag => (redis_client # NULL /\ queue # NULL)

----------------------------------------------------------------------------
(* After a failed ping (checked under SpecQueue) *)

IsCacheOrHandlerStep ==
    /\ opCount' = opCount + 1
    /\ last'.op \in {"get", "set", "delete", "clear_all", "queue_generate_text",
                     "api_queue_generate_text"}

\* C39: while _is_connected is false, no cache operation and no request
\* handler sets it again, whether or not the server answers by now: a get
\* returns nothing and counts nothing, set, delete and clear_all return False
\* and leave the store alone, and main's queued request with a valid prompt
\* answers 503; the flag becomes true only in a connect or reconnect that
\* returns True.
C39_NoAutomaticRecovery ==
    [][/\ (~is_connected_flag /\ is_connected_flag') =>
             (last'.op \in {"connect", "reconnect"} /\ last'.ret)
       /\ (~is_connected_flag /\ IsCacheOrHandlerStep) =>
             /\ ~is_connected_flag'
             /\ last'.op = "get" =>
                   (last'.ret = miss_result /\ hit_count' = hit_count)
             /\ last'.op \in {"set", "delete", "clear_all"} =>
                   (last'.ret = FALSE /\ store' = store)
             /\ (last'.op = "queue_generate_text" /\ Strip(last'.prompt) # "") =>
                   (last'.reply = UNAVAILABLE /\ jobs' = jobs)]_vars

\* an entry was stored, a get then met a server that was down, and the next
\* get, with the server answering again and both handles still set, found
\* nothing although the entry is in the store
C39_Witness ==
    /\ last.op = "get"
    /\ last.ret = miss_result
    /\ ~last.connected
    /\ last.cache_key \in DOMAIN store
    /\ getCalls = 2
    /\ hit_count = 0
    /\ backendUp
    /\ ~is_connected_flag
    /\ redis_client # NULL
    /\ queue # NULL

============================================================================
